---- MODULE Spec2Model ----
(***************************************************************************)
(* The WebAssembly binary Emitter of src/src/WasmEmitter.ts as a state     *)
(* machine: one action per event handler of Emitter.writeStateAndResult,   *)
(* the byte buffer and the back-patching bookmarks as state.               *)
(***************************************************************************)
EXTENDS Integers, Sequences, FiniteSets, TLC

(* ------------------------------------------------------------------ *)
(* Bounds of the model                                                  *)
(* ------------------------------------------------------------------ *)

\* A module, a section or an entry is begun only while
\* Len(data) + Len(buffer) <= MaxBytes; what is begun can always be finished.
MaxBytes == 20

\* Entry events delivered to one section.
MaxEntries == 2

\* Operators delivered to one function body or init expression.
MaxOps == 2

(* ------------------------------------------------------------------ *)
(* Enumerations imported from ./WasmParser                              *)
(* ------------------------------------------------------------------ *)

SectionCode ==
  [Custom |-> 0, Type |-> 1, Import |-> 2, Function |-> 3, Table |-> 4,
   Memory |-> 5, Global |-> 6, Export |-> 7, Start |-> 8, Element |-> 9,
   Code |-> 10, Data |-> 11]

ExternalKind == [Function |-> 0, Table |-> 1, Memory |-> 2, Global |-> 3]

OperatorCode ==
  [unreachable |-> 0, nop |-> 1, block |-> 2, loop |-> 3, if |-> 4,
   else |-> 5, end |-> 11, br |-> 12, br_if |-> 13, br_table |-> 14,
   return |-> 15, call |-> 16, call_indirect |-> 17, drop |-> 26,
   select |-> 27, get_local |-> 32, set_local |-> 33, tee_local |-> 34,
   get_global |-> 35, set_global |-> 36,
   i32_load |-> 40, i64_load |-> 41, f32_load |-> 42, f64_load |-> 43,
   i32_load8_s |-> 44, i32_load8_u |-> 45, i32_load16_s |-> 46,
   i32_load16_u |-> 47, i64_load8_s |-> 48, i64_load8_u |-> 49,
   i64_load16_s |-> 50, i64_load16_u |-> 51, i64_load32_s |-> 52,
   i64_load32_u |-> 53, i32_store |-> 54, i64_store |-> 55,
   f32_store |-> 56, f64_store |-> 57, i32_store8 |-> 58,
   i32_store16 |-> 59, i64_store8 |-> 60, i64_store16 |-> 61,
   i64_store32 |-> 62, current_memory |-> 63, grow_memory |-> 64,
   i32_const |-> 65, i64_const |-> 66, f32_const |-> 67, f64_const |-> 68,
   i32_add |-> 106]

\* enum EmitterState
EmitterState ==
  {"Initial", "Error", "Wasm", "CustomSecton", "TypeSection", "ImportSection",
   "FunctionSection", "TableSection", "MemorySection", "GlobalSection",
   "ExportSection", "StartSection", "ElementSection", "CodeSection",
   "DataSection", "FunctionBody", "DataSectionEntry", "DataSectionEntryBody",
   "DataSectionEntryEnd", "InitExpression"}

\* this._data = null: a value no Uint8Array equals (its elements are 0..255)
Null == <<-1>>

\* limits.maximum == undefined: a value no u32 equals
Undefined == -1

(* ------------------------------------------------------------------ *)
(* 32-bit integer operators of JavaScript, on the int32 values          *)
(* (-2^31 .. 2^31 - 1), which are the integers of this model            *)
(* ------------------------------------------------------------------ *)

Pow2(k) == 2 ^ k

\* n >> k, k < 31: arithmetic shift
Sar(n, k) == n \div Pow2(k)

\* n >> 31
Sar31(n) == IF n < 0 THEN -1 ELSE 0

\* n >>> 7: logical shift of the two's complement pattern
Shr7(n) == IF n < 0 THEN (n \div 128) + Pow2(25) ELSE n \div 128

\* (n >>> k) & 0x7F for k in {0, 7, 14, 21}: bits k .. k+6 of the pattern
Group7(n, k) == (n \div Pow2(k)) % 128

\* (n >>> 28) & 0x7F: bits 28 .. 31 of the pattern
Group28(n) == (n \div Pow2(28)) % 16

\* n & ~0x7F is non-zero
HasHighBits(n) == n < 0 \/ n >= 128

(* ------------------------------------------------------------------ *)
(* Buffer primitives: each takes the buffer and returns the new buffer  *)
(* ------------------------------------------------------------------ *)

\* this._buffer.push(byte)
writeByte(buf, byte) == Append(buf, byte)

\* this._buffer.push(...bytes)
writeMutiple(buf, bytes) == buf \o bytes

\* get _position(): this._buffer.length
position(buf) == Len(buf)

\* patchByte with the store replaced by a push
patchByte_push(buf, pos, byte) == Append(buf, byte)

\* this._buffer[pos] = byte. A store past the end of a JavaScript array
\* extends it; the holes read back as 0 once copied to a Uint8Array.
patchByte(buf, pos, byte) ==
  IF pos < Len(buf)
    THEN [buf EXCEPT ![pos + 1] = byte]
    ELSE buf \o [i \in 1..(pos - Len(buf)) |-> 0] \o <<byte>>

\* while (n & ~0x7F) { writeByte(0x80 | (n & 0x7f)); n >>>= 7; } writeByte(n)
RECURSIVE writeVarUint(_, _)
writeVarUint(buf, n) ==
  IF HasHighBits(n)
    THEN writeVarUint(writeByte(buf, 128 + Group7(n, 0)), Shr7(n))
    ELSE writeByte(buf, n)

\* the loop of writeVarInt testing n >> 7 instead of n >> 6
RECURSIVE VarIntLoop_bit7(_, _, _)
VarIntLoop_bit7(buf, n, test) ==
  IF Sar(n, 7) # test
    THEN VarIntLoop_bit7(writeByte(buf, 128 + Group7(n, 0)), Sar(n, 7), test)
    ELSE writeByte(buf, Group7(n, 0))

\* while ((n >> 6) != test) { writeByte(0x80 | (n & 0x7f)); n >>= 7; }
\* writeByte(n & 0x7f)
RECURSIVE VarIntLoop(_, _, _)
VarIntLoop(buf, n, test) ==
  IF Sar(n, 6) # test
    THEN VarIntLoop(writeByte(buf, 128 + Group7(n, 0)), Sar(n, 7), test)
    ELSE writeByte(buf, Group7(n, 0))

\* n |= 0; var test = n >> 31; ...
writeVarInt(buf, n) == VarIntLoop(buf, n, Sar31(n))

\* writeMutiple(0x80, 0x80, 0x80, 0x80, 0x00); the slot starts at the old position
writePatchableVarUint32(buf) == writeMutiple(buf, <<128, 128, 128, 128, 0>>)

\* for (var i = start; i < end; i++) writeByte(bytes[i])
writeBytes(buf, bytes, start, end) ==
  IF start < end
    THEN buf \o [i \in 1..(end - start) |-> bytes[start + i]]
    ELSE buf

\* writeVarUint(str.length); writeBytes(str, 0, str.length)
writeString(buf, str) == writeBytes(writeVarUint(buf, Len(str)), str, 0, Len(str))

\* patchVarUint32 without the continuation bits (0x80 |) on the first four bytes
patchVarUint32_noContinuation(buf, pos, n) ==
  LET b0 == patchByte(buf, pos, Group7(n, 0))
      b1 == patchByte(b0, pos + 1, Group7(n, 7))
      b2 == patchByte(b1, pos + 2, Group7(n, 14))
      b3 == patchByte(b2, pos + 3, Group7(n, 21))
  IN  patchByte(b3, pos + 4, Group28(n))

\* Five patchByte calls: 7-bit groups of n, continuation bit on the first four.
patchVarUint32(buf, pos, n) ==
  LET b0 == patchByte(buf, pos, 128 + Group7(n, 0))
      b1 == patchByte(b0, pos + 1, 128 + Group7(n, 7))
      b2 == patchByte(b1, pos + 2, 128 + Group7(n, 14))
      b3 == patchByte(b2, pos + 3, 128 + Group7(n, 21))
  IN  patchByte(b3, pos + 4, Group28(n))

\* new Uint8Array(this._buffer): every element taken modulo 256
Uint8Array(buf) == [i \in 1..Len(buf) |-> buf[i] % 256]

(* ------------------------------------------------------------------ *)
(* Entry encodings                                                      *)
(* ------------------------------------------------------------------ *)

RECURSIVE writeVarInts(_, _, _)
writeVarInts(buf, xs, i) ==
  IF i < Len(xs) THEN writeVarInts(writeVarInt(buf, xs[i + 1]), xs, i + 1) ELSE buf

\* the br_table loop with i < tableCount: the default target is left out
RECURSIVE writeVarUints_noDefault(_, _, _, _)
writeVarUints_noDefault(buf, xs, i, last) ==
  IF i < last
    THEN writeVarUints_noDefault(writeVarUint(buf, xs[i + 1]), xs, i + 1, last)
    ELSE buf

RECURSIVE writeVarUints(_, _, _, _)
writeVarUints(buf, xs, i, last) ==
  IF i <= last THEN writeVarUints(writeVarUint(buf, xs[i + 1]), xs, i + 1, last) ELSE buf

writeFuncType(buf, type) ==
  LET b1 == writeVarInt(buf, type.form)
      b2 == writeVarUint(b1, Len(type.params))
      b3 == writeVarInts(b2, type.params, 0)
      b4 == writeVarUint(b3, Len(type.returns))
  IN  writeVarInts(b4, type.returns, 0)

\* var flags = limits.maximum == undefined ? 0 : 1
writeResizableLimits(buf, limits) ==
  LET flags == IF limits.maximum = Undefined THEN 0 ELSE 1
      b1 == writeVarUint(buf, flags)
      b2 == writeVarUint(b1, limits.initial)
  IN  IF flags = 1 THEN writeVarUint(b2, limits.maximum) ELSE b2

writeTableType(buf, type) ==
  writeResizableLimits(writeVarInt(buf, type.elementType), type.limits)

writeMemoryType(buf, type) == writeResizableLimits(buf, type.limits)

writeGlobalType(buf, type) ==
  writeVarUint(writeVarInt(buf, type.contentType), type.mutability)

writeMemoryImmediate(buf, address) ==
  writeVarUint(writeVarUint(buf, address.flags), address.offset)

\* writeBytes(n.data, 0, 8)
writeVarInt64(buf, n) == writeBytes(buf, n.data, 0, 8)

\* var data = new Uint8Array(4); the DataView only READS it (getFloat32), so
\* the four bytes written are the zeros the array was created with.
writeFloat32(buf, n) == writeBytes(buf, <<0, 0, 0, 0>>, 0, 4)

\* as writeFloat32, with 8 bytes and getFloat64
writeFloat64(buf, n) == writeBytes(buf, <<0, 0, 0, 0, 0, 0, 0, 0>>, 0, 8)

\* The immediates of writeOperator's switch (opInfo.code), after the opcode byte
writeOperatorImmediates(buf, opInfo) ==
  LET c == opInfo.code
      memoryOps == (OperatorCode.i32_load)..(OperatorCode.i64_store32)
  IN  CASE c \in {OperatorCode.block, OperatorCode.loop, OperatorCode.if} ->
             writeVarInt(buf, opInfo.blockType)
        [] c \in {OperatorCode.br, OperatorCode.br_if} ->
             writeVarUint(buf, opInfo.brDepth)
        [] c = OperatorCode.br_table ->
             LET tableCount == Len(opInfo.brTable) - 1
             IN  writeVarUints(writeVarUint(buf, tableCount), opInfo.brTable, 0, tableCount)
        [] c = OperatorCode.call ->
             writeVarUint(buf, opInfo.funcIndex)
        [] c = OperatorCode.call_indirect ->
             writeVarUint(writeVarUint(buf, opInfo.typeIndex), 0)
        [] c \in {OperatorCode.get_local, OperatorCode.set_local, OperatorCode.tee_local} ->
             writeVarUint(buf, opInfo.localIndex)
        [] c \in {OperatorCode.get_global, OperatorCode.set_global} ->
             writeVarUint(buf, opInfo.globalIndex)
        [] c \in memoryOps ->
             writeMemoryImmediate(buf, opInfo.memoryAddress)
        [] c \in {OperatorCode.current_memory, OperatorCode.grow_memory} ->
             writeVarUint(buf, 0)
        [] c = OperatorCode.i32_const ->
             writeVarInt(buf, opInfo.literal)
        [] c = OperatorCode.i64_const ->
             writeVarInt64(buf, opInfo.literal)
        [] c = OperatorCode.f32_const ->
             writeFloat32(buf, opInfo.literal)
        [] c = OperatorCode.f64_const ->
             writeFloat64(buf, opInfo.literal)
        [] OTHER -> buf

\* functionInfo.locals: (count, type) pairs, count as varuint, type as varint
RECURSIVE writeLocals(_, _, _)
writeLocals(buf, locals, i) ==
  IF i < Len(locals)
    THEN writeLocals(writeVarInt(writeVarUint(buf, locals[i + 1].count), locals[i + 1].type),
                     locals, i + 1)
    ELSE buf

(* ------------------------------------------------------------------ *)
(* Payloads delivered with the events                                   *)
(* ------------------------------------------------------------------ *)

\* A data payload long enough for a length and a section size of two
\* significant LEB128 groups.
LongLen == 130

NoResult == <<>>

\* ISectionInformation: every defined id, and one id outside the enum
Sections ==
  {[id |-> i] : i \in 1..12} \cup {[id |-> SectionCode.Custom, name |-> <<110>>]}

FunctionTypes ==
  {[form |-> -32, params |-> <<>>, returns |-> <<>>],
   [form |-> -32, params |-> <<-1>>, returns |-> <<-1>>]}

\* IImportEntry: one entry of each kind, and one of a kind outside ExternalKind
ImportEntries ==
  {[module |-> <<109>>, field |-> <<102>>, kind |-> ExternalKind.Function, funcTypeIndex |-> 0],
   [module |-> <<109>>, field |-> <<102>>, kind |-> ExternalKind.Table,
    type |-> [elementType |-> -16, limits |-> [initial |-> 1, maximum |-> Undefined]]],
   [module |-> <<109>>, field |-> <<102>>, kind |-> ExternalKind.Memory,
    type |-> [limits |-> [initial |-> 1, maximum |-> 2]]],
   [module |-> <<109>>, field |-> <<102>>, kind |-> ExternalKind.Global,
    type |-> [contentType |-> -1, mutability |-> 0]],
   [module |-> <<109>>, field |-> <<102>>, kind |-> 4]}

FunctionEntries == {[typeIndex |-> 0], [typeIndex |-> 1]}

ExportEntries ==
  {[field |-> <<105, 100>>, kind |-> ExternalKind.Function, index |-> 0],
   [field |-> <<105, 100>>, kind |-> 4, index |-> 0]}

MemoryTypes ==
  {[limits |-> [initial |-> 1, maximum |-> Undefined]],
   [limits |-> [initial |-> 1, maximum |-> 2]]}

FunctionInformations ==
  {[locals |-> <<>>], [locals |-> <<[count |-> 1, type |-> -1]>>]}

\* IOperatorInformation; a float literal is given by its IEEE-754 bit pattern,
\* that of a 64-bit float as its low and high 32-bit words
Operators ==
  {[code |-> OperatorCode.nop],
   [code |-> OperatorCode.end],
   [code |-> OperatorCode.block, blockType |-> -64],
   [code |-> OperatorCode.i32_const, literal |-> 1024],
   [code |-> OperatorCode.f32_const, literal |-> 1065353216],
   [code |-> OperatorCode.f64_const, literal |-> [lo |-> 0, hi |-> 1072693248]],
   [code |-> OperatorCode.br_table, brTable |-> <<1, 2, 3, 0>>]}

DataSegments == {[index |-> 0]}

DataSegmentBodies ==
  {[data |-> <<104, 105>>], [data |-> [i \in 1..LongLen |-> 0]]}

\* BinaryReaderState values writeStateAndResult has no case for
OtherReaderStates ==
  {"TableSectionEntry", "BeginGlobalSectionEntry", "EndGlobalSectionEntry",
   "BeginElementSectionEntry", "ElementSectionEntryBody", "EndElementSectionEntry",
   "Error"}

(* ------------------------------------------------------------------ *)
(* State                                                                *)
(* ------------------------------------------------------------------ *)

VARIABLES
  buffer,                   \* _buffer
  state,                    \* _state
  sectionStart,             \* _sectionStart
  sectionSizeBytes,         \* _sectionSizeBytes
  sectionEntiesCount,       \* _sectionEntiesCount
  sectionEntiesCountBytes,  \* _sectionEntiesCountBytes
  bodyStart,                \* _bodyStart
  bodySizeBytes,            \* _bodySizeBytes
  data,                     \* _data
  endWritten,               \* _endWritten
  initExpressionAfterState, \* _initExpressionAfterState
  event,                    \* the event last delivered to writeStateAndResult
  outcome,                  \* how that call ended: "ok" or "throw" ("none" before any)
  log,                      \* the events accepted since the last accepted BeginWasm
  threw,                    \* some call on this instance has thrown
  \* WasmDisassembler
  disBuffer,                \* _buffer: the strings pushed, in order
  types,                    \* _types
  funcIndex,                \* _funcIndex
  funcTypes,                \* _funcTypes
  importCount,              \* _importCount
  globalCount,              \* _globalCount
  tableCount,               \* _tableCount
  indent,                   \* _indent
  indentLevel,              \* _indentLevel
  disLog,                   \* the events read by disassemble, each with how it ended
  disResult,                \* the text disassemble last returned ("" before any)
  \* a call of memoryAddressToString
  maCode,                   \* its code argument
  maAddress,                \* its address argument
  maResult,                 \* the string returned ("" before the call)
  \* a call of writeVarInt on an empty buffer
  viN,                      \* its argument
  viBytes                   \* the bytes written (none before the call)

emitter ==
  <<buffer, state, sectionStart, sectionSizeBytes, sectionEntiesCount,
    sectionEntiesCountBytes, bodyStart, bodySizeBytes, data, endWritten,
    initExpressionAfterState>>

vars == <<emitter, event, outcome, log, threw>>

disassembler ==
  <<disBuffer, types, funcIndex, funcTypes, importCount, globalCount, tableCount,
    indent, indentLevel>>

disVars == <<disassembler, disLog, disResult>>

maVars == <<maCode, maAddress, maResult>>

viVars == <<viN, viBytes>>

\* The calls of the functions checked on their own
callVars == <<maVars, viVars>>

\* this._indent = null, in a field that otherwise holds a string
NullIndent == "<null>"

\* WasmDisassembler constructor
DisConstructor ==
  /\ disBuffer = <<>>
  /\ types = <<>>
  /\ funcIndex = 0
  /\ funcTypes = <<>>
  /\ importCount = 0
  /\ globalCount = 0
  /\ tableCount = 0
  /\ indent = NullIndent
  /\ indentLevel = 0
  /\ disLog = <<>>
  /\ disResult = ""

\* No call of memoryAddressToString is under way.
NoAddressCall ==
  /\ maCode = Undefined
  /\ maAddress = [flags |-> 0, offset |-> 0]
  /\ maResult = ""

\* No call of writeVarInt on its own is under way.
NoVarIntCall ==
  /\ viN = 0
  /\ viBytes = <<>>

\* constructor
EmitterConstructor ==
  /\ buffer = <<>>
  /\ state = "Initial"
  /\ sectionStart = 0
  /\ sectionSizeBytes = 0
  /\ sectionEntiesCount = 0
  /\ sectionEntiesCountBytes = 0
  /\ bodyStart = 0
  /\ bodySizeBytes = 0
  /\ data = Null
  /\ endWritten = FALSE
  /\ initExpressionAfterState = "Initial"
  /\ event = [kind |-> "none", result |-> NoResult]
  /\ outcome = "none"
  /\ log = <<>>
  /\ threw = FALSE

\* An emitter and a disassembler were constructed
Init ==
  /\ EmitterConstructor
  /\ DisConstructor
  /\ NoAddressCall
  /\ NoVarIntCall

(* ------------------------------------------------------------------ *)
(* How a call ends                                                      *)
(* ------------------------------------------------------------------ *)

\* The call returns: the event is accepted.
Accept(e) ==
  /\ event' = e
  /\ outcome' = "ok"
  /\ log' = IF e.kind = "BeginWasm" THEN <<e>> ELSE Append(log, e)
  /\ UNCHANGED <<threw, disVars, callVars>>

\* The call throws after the assignments the action states.
Throws(e) ==
  /\ event' = e
  /\ outcome' = "throw"
  /\ threw' = TRUE
  /\ UNCHANGED <<log, disVars, callVars>>

\* a throw that comes after the buffer was emptied
Rejects_clearsBuffer(kind) ==
  /\ Throws([kind |-> kind, result |-> NoResult])
  /\ buffer' = <<>>
  /\ UNCHANGED <<state, sectionStart, sectionSizeBytes, sectionEntiesCount,
                 sectionEntiesCountBytes, bodyStart, bodySizeBytes, data, endWritten,
                 initExpressionAfterState>>

\* The call throws at its first statement: nothing of the result was read and
\* no field was assigned.
Rejects(kind) ==
  /\ Throws([kind |-> kind, result |-> NoResult])
  /\ UNCHANGED emitter

\* ensureState with the comparison dropped
ensureState_unchecked(expected) == TRUE

\* if (this._state !== state) throw ...: TRUE when the call goes on
ensureState(expected) == state = expected

\* ensureEitherState with the test dropped
ensureEitherState_unchecked(states) == TRUE

\* if (states.indexOf(this._state) < 0) throw ...
ensureEitherState(states) == state \in states

\* ensureEndOperatorWritten with the test dropped
ensureEndOperatorWritten_unchecked == TRUE

\* if (!this._endWritten) throw ...
ensureEndOperatorWritten == endWritten

\* Bytes held by the instance; modules, sections and entries are begun while
\* this holds (the handlers take the condition as their argument room).
Room == (IF data = Null THEN 0 ELSE Len(data)) + Len(buffer) <= MaxBytes

\* The operators accepted since the body or init expression was begun
RECURSIVE OpsSince(_, _)
OpsSince(l, i) ==
  IF i = 0 \/ l[i].kind \notin {"CodeOperator", "InitExpressionOperator"}
    THEN 0
    ELSE 1 + OpsSince(l, i - 1)

(* ------------------------------------------------------------------ *)
(* The event handlers                                                   *)
(* ------------------------------------------------------------------ *)

writeBeginWasm(room) ==
  \/ /\ ~ensureState("Initial")
     /\ Rejects("BeginWasm")
  \/ /\ ensureState("Initial")
     /\ room
     /\ buffer' = writeMutiple(buffer, <<0, 97, 115, 109, 1, 0, 0, 0>>)
     /\ state' = "Wasm"
     /\ UNCHANGED <<sectionStart, sectionSizeBytes, sectionEntiesCount,
                    sectionEntiesCountBytes, bodyStart, bodySizeBytes, data,
                    endWritten, initExpressionAfterState>>
     /\ Accept([kind |-> "BeginWasm", result |-> [magic |-> 1836278016, version |-> 1]])

\* writeEndWasm taking the snapshot before ensureState
writeEndWasm_snapshotFirst ==
  \/ /\ ~ensureState("Wasm")
     /\ data' = Uint8Array(buffer)
     /\ UNCHANGED <<buffer, state, sectionStart, sectionSizeBytes, sectionEntiesCount,
                    sectionEntiesCountBytes, bodyStart, bodySizeBytes,
                    endWritten, initExpressionAfterState>>
     /\ Throws([kind |-> "EndWasm", result |-> NoResult])
  \/ /\ ensureState("Wasm")
     /\ state' = "Initial"
     /\ data' = Uint8Array(buffer)
     /\ buffer' = <<>>
     /\ UNCHANGED <<sectionStart, sectionSizeBytes, sectionEntiesCount,
                    sectionEntiesCountBytes, bodyStart, bodySizeBytes,
                    endWritten, initExpressionAfterState>>
     /\ Accept([kind |-> "EndWasm", result |-> NoResult])

\* writeEndWasm clearing the buffer before the snapshot is taken
writeEndWasm_clearFirst ==
  \/ /\ ~ensureState("Wasm")
     /\ Rejects("EndWasm")
  \/ /\ ensureState("Wasm")
     /\ state' = "Initial"
     /\ buffer' = <<>>
     /\ data' = Uint8Array(<<>>)
     /\ UNCHANGED <<sectionStart, sectionSizeBytes, sectionEntiesCount,
                    sectionEntiesCountBytes, bodyStart, bodySizeBytes,
                    endWritten, initExpressionAfterState>>
     /\ Accept([kind |-> "EndWasm", result |-> NoResult])

\* writeEndWasm without this._buffer.length = 0
writeEndWasm_keepsBuffer ==
  \/ /\ ~ensureState("Wasm")
     /\ Rejects("EndWasm")
  \/ /\ ensureState("Wasm")
     /\ state' = "Initial"
     /\ data' = Uint8Array(buffer)
     /\ UNCHANGED <<buffer, sectionStart, sectionSizeBytes, sectionEntiesCount,
                    sectionEntiesCountBytes, bodyStart, bodySizeBytes,
                    endWritten, initExpressionAfterState>>
     /\ Accept([kind |-> "EndWasm", result |-> NoResult])

writeEndWasm ==
  \/ /\ ~ensureState("Wasm")
     /\ Rejects("EndWasm")
  \/ /\ ensureState("Wasm")
     /\ state' = "Initial"
     /\ data' = Uint8Array(buffer)
     /\ buffer' = <<>>
     /\ UNCHANGED <<sectionStart, sectionSizeBytes, sectionEntiesCount,
                    sectionEntiesCountBytes, bodyStart, bodySizeBytes,
                    endWritten, initExpressionAfterState>>
     /\ Accept([kind |-> "EndWasm", result |-> NoResult])

\* sectionState with the Global case setting the state of the Memory case
sectionState_globalAsMemory(id) ==
  CASE id = SectionCode.Type     -> "TypeSection"
    [] id = SectionCode.Import   -> "ImportSection"
    [] id = SectionCode.Function -> "FunctionSection"
    [] id = SectionCode.Export   -> "ExportSection"
    [] id = SectionCode.Code     -> "CodeSection"
    [] id = SectionCode.Memory   -> "MemorySection"
    [] id = SectionCode.Global   -> "MemorySection"
    [] id = SectionCode.Data     -> "DataSection"
    [] OTHER                     -> "Error"

\* sectionState with the Global case missing, as for Table, Start and Element
sectionState_noGlobal(id) ==
  CASE id = SectionCode.Type     -> "TypeSection"
    [] id = SectionCode.Import   -> "ImportSection"
    [] id = SectionCode.Function -> "FunctionSection"
    [] id = SectionCode.Export   -> "ExportSection"
    [] id = SectionCode.Code     -> "CodeSection"
    [] id = SectionCode.Memory   -> "MemorySection"
    [] id = SectionCode.Data     -> "DataSection"
    [] OTHER                     -> "Error"

\* The switch (section.id) of writeBeginSection: the state the section id
\* leads to, "Error" for the ids of the default branch.
sectionState(id) ==
  CASE id = SectionCode.Type     -> "TypeSection"
    [] id = SectionCode.Import   -> "ImportSection"
    [] id = SectionCode.Function -> "FunctionSection"
    [] id = SectionCode.Export   -> "ExportSection"
    [] id = SectionCode.Code     -> "CodeSection"
    [] id = SectionCode.Memory   -> "MemorySection"
    [] id = SectionCode.Global   -> "GlobalSection"
    [] id = SectionCode.Data     -> "DataSection"
    [] OTHER                     -> "Error"

\* _sectionEntiesCountBytes = writePatchableVarUint32(); _sectionEntiesCount = 0
writePatchableSectionEntriesCount(buf) ==
  [buffer |-> writePatchableVarUint32(buf),
   sectionEntiesCountBytes |-> position(buf),
   sectionEntiesCount |-> 0]

writeBeginSection(room) ==
  \/ /\ ~ensureState("Wasm")
     /\ Rejects("BeginSection")
  \/ /\ ensureState("Wasm")
     /\ room
     /\ \E section \in Sections :
          LET b1 == writeVarUint(buffer, section.id)
              b2 == writePatchableVarUint32(b1)
              e  == [kind |-> "BeginSection", result |-> section]
          IN  /\ sectionSizeBytes' = position(b1)
              /\ sectionStart' = position(b2)
              /\ state' = sectionState(section.id)
              /\ UNCHANGED <<bodyStart, bodySizeBytes, data, endWritten,
                             initExpressionAfterState>>
              /\ IF sectionState(section.id) = "Error"
                   THEN /\ buffer' = IF section.id = SectionCode.Custom
                                       THEN writeString(b2, section.name)
                                       ELSE b2
                        /\ UNCHANGED <<sectionEntiesCount, sectionEntiesCountBytes>>
                        /\ Throws(e)
                   ELSE LET w == writePatchableSectionEntriesCount(b2)
                        IN  /\ buffer' = w.buffer
                            /\ sectionEntiesCountBytes' = w.sectionEntiesCountBytes
                            /\ sectionEntiesCount' = w.sectionEntiesCount
                            /\ Accept(e)

\* the switch of writeEndSection with a case for Error
endSectionStates_withError ==
  {"TypeSection", "ImportSection", "FunctionSection", "ExportSection",
   "CodeSection", "MemorySection", "GlobalSection", "DataSection", "Error"}

\* The case labels of writeEndSection's switch (this._state)
endSectionStates ==
  {"TypeSection", "ImportSection", "FunctionSection", "ExportSection",
   "CodeSection", "MemorySection", "GlobalSection", "DataSection"}

writeEndSection ==
  \/ /\ state \notin endSectionStates
     /\ Rejects("EndSection")
  \/ /\ state \in endSectionStates
     /\ LET b1 == patchVarUint32(buffer, sectionEntiesCountBytes, sectionEntiesCount)
            sectionLength == position(b1) - sectionStart
        IN  buffer' = patchVarUint32(b1, sectionSizeBytes, sectionLength)
     /\ state' = "Wasm"
     /\ UNCHANGED <<sectionStart, sectionSizeBytes, sectionEntiesCount,
                    sectionEntiesCountBytes, bodyStart, bodySizeBytes, data,
                    endWritten, initExpressionAfterState>>
     /\ Accept([kind |-> "EndSection", result |-> NoResult])

writeFunctionEntryBytes(buf, entry) == writeVarUint(buf, entry.typeIndex)

writeExportEntryBytes(buf, entry) ==
  writeVarUint(writeByte(writeString(buf, entry.field), entry.kind), entry.index)

\* The bytes each of the four flat entry handlers writes for its entry
writeEntryBytes(kind, buf, r) ==
  CASE kind = "TypeSectionEntry"     -> writeFuncType(buf, r)
    [] kind = "FunctionSectionEntry" -> writeFunctionEntryBytes(buf, r)
    [] kind = "ExportSectionEntry"   -> writeExportEntryBytes(buf, r)
    [] kind = "MemorySectionEntry"   -> writeMemoryType(buf, r)

\* What the four flat entry handlers share: ensureState(section),
\* _sectionEntiesCount++, then the entry's bytes.
EntryHandler(kind, section, results, room) ==
  \/ /\ ~ensureState(section)
     /\ Rejects(kind)
  \/ /\ ensureState(section)
     /\ room
     /\ sectionEntiesCount < MaxEntries
     /\ \E r \in results :
          /\ sectionEntiesCount' = sectionEntiesCount + 1
          /\ buffer' = writeEntryBytes(kind, buffer, r)
          /\ UNCHANGED <<state, sectionStart, sectionSizeBytes,
                         sectionEntiesCountBytes, bodyStart, bodySizeBytes, data,
                         endWritten, initExpressionAfterState>>
          /\ Accept([kind |-> kind, result |-> r])

writeTypeSectionEntry(room) ==
  EntryHandler("TypeSectionEntry", "TypeSection", FunctionTypes, room)

writeFunctionSectionEntry(room) ==
  EntryHandler("FunctionSectionEntry", "FunctionSection", FunctionEntries, room)

writeExportSectionEntry(room) ==
  EntryHandler("ExportSectionEntry", "ExportSection", ExportEntries, room)

writeMemorySectionEntry(room) ==
  EntryHandler("MemorySectionEntry", "MemorySection", MemoryTypes, room)

\* The switch (entry.kind) of writeImportSectionEntry; the default branch throws
validImportKind(kind) ==
  kind \in {ExternalKind.Function, ExternalKind.Table, ExternalKind.Memory,
            ExternalKind.Global}

writeImportEntryBytes(buf, entry) ==
  LET b == writeByte(writeString(writeString(buf, entry.module), entry.field), entry.kind)
  IN  CASE entry.kind = ExternalKind.Function -> writeVarUint(b, entry.funcTypeIndex)
        [] entry.kind = ExternalKind.Table    -> writeTableType(b, entry.type)
        [] entry.kind = ExternalKind.Memory   -> writeMemoryType(b, entry.type)
        [] entry.kind = ExternalKind.Global   -> writeGlobalType(b, entry.type)
        [] OTHER                              -> b

writeImportSectionEntry(room) ==
  \/ /\ ~ensureState("ImportSection")
     /\ Rejects("ImportSectionEntry")
  \/ /\ ensureState("ImportSection")
     /\ room
     /\ sectionEntiesCount < MaxEntries
     /\ \E entry \in ImportEntries :
          LET e == [kind |-> "ImportSectionEntry", result |-> entry]
          IN  /\ sectionEntiesCount' = sectionEntiesCount + 1
              /\ buffer' = writeImportEntryBytes(buffer, entry)
              /\ UNCHANGED <<state, sectionStart, sectionSizeBytes,
                             sectionEntiesCountBytes, bodyStart, bodySizeBytes,
                             data, endWritten, initExpressionAfterState>>
              /\ IF validImportKind(entry.kind) THEN Accept(e) ELSE Throws(e)

writeBeginFunctionBody(room) ==
  \/ /\ ~ensureState("CodeSection")
     /\ Rejects("BeginFunctionBody")
  \/ /\ ensureState("CodeSection")
     /\ room
     /\ sectionEntiesCount < MaxEntries
     /\ \E functionInfo \in FunctionInformations :
          LET b1 == writePatchableVarUint32(buffer)
              b2 == writeVarUint(b1, Len(functionInfo.locals))
          IN  /\ sectionEntiesCount' = sectionEntiesCount + 1
              /\ bodySizeBytes' = position(buffer)
              /\ bodyStart' = position(b1)
              /\ endWritten' = FALSE
              /\ state' = "FunctionBody"
              /\ buffer' = writeLocals(b2, functionInfo.locals, 0)
              /\ UNCHANGED <<sectionStart, sectionSizeBytes, sectionEntiesCountBytes,
                             data, initExpressionAfterState>>
              /\ Accept([kind |-> "BeginFunctionBody", result |-> functionInfo])

writeEndFunctionBody ==
  \/ /\ ~ensureState("FunctionBody")
     /\ Rejects("EndFunctionBody")
  \/ /\ ensureState("FunctionBody")
     /\ ~ensureEndOperatorWritten
     /\ Rejects("EndFunctionBody")
  \/ /\ ensureState("FunctionBody")
     /\ ensureEndOperatorWritten
     /\ LET bodySize == position(buffer) - bodyStart
        IN  buffer' = patchVarUint32(buffer, bodySizeBytes, bodySize)
     /\ state' = "CodeSection"
     /\ UNCHANGED <<sectionStart, sectionSizeBytes, sectionEntiesCount,
                    sectionEntiesCountBytes, bodyStart, bodySizeBytes, data,
                    endWritten, initExpressionAfterState>>
     /\ Accept([kind |-> "EndFunctionBody", result |-> NoResult])

writeBeginDataSectionEntry(room) ==
  \/ /\ ~ensureState("DataSection")
     /\ Rejects("BeginDataSectionEntry")
  \/ /\ ensureState("DataSection")
     /\ room
     /\ sectionEntiesCount < MaxEntries
     /\ \E entry \in DataSegments :
          /\ sectionEntiesCount' = sectionEntiesCount + 1
          /\ buffer' = writeVarUint(buffer, entry.index)
          /\ state' = "DataSectionEntry"
          /\ UNCHANGED <<sectionStart, sectionSizeBytes, sectionEntiesCountBytes,
                         bodyStart, bodySizeBytes, data, endWritten,
                         initExpressionAfterState>>
          /\ Accept([kind |-> "BeginDataSectionEntry", result |-> entry])

writeDataSectionBody ==
  \/ /\ ~ensureState("DataSectionEntryBody")
     /\ Rejects("DataSectionEntryBody")
  \/ /\ ensureState("DataSectionEntryBody")
     /\ \E body \in DataSegmentBodies :
          /\ buffer' = writeString(buffer, body.data)
          /\ state' = "DataSectionEntryEnd"
          /\ UNCHANGED <<sectionStart, sectionSizeBytes, sectionEntiesCount,
                         sectionEntiesCountBytes, bodyStart, bodySizeBytes, data,
                         endWritten, initExpressionAfterState>>
          /\ Accept([kind |-> "DataSectionEntryBody", result |-> body])

writeEndDataSectionEntry ==
  \/ /\ ~ensureState("DataSectionEntryEnd")
     /\ Rejects("EndDataSectionEntry")
  \/ /\ ensureState("DataSectionEntryEnd")
     /\ state' = "DataSection"
     /\ UNCHANGED <<buffer, sectionStart, sectionSizeBytes, sectionEntiesCount,
                    sectionEntiesCountBytes, bodyStart, bodySizeBytes, data,
                    endWritten, initExpressionAfterState>>
     /\ Accept([kind |-> "EndDataSectionEntry", result |-> NoResult])

\* initExpressionAfter recording the state after the entry body
initExpressionAfter_skipBody(st) ==
  IF st = "DataSectionEntry" THEN "DataSectionEntryEnd" ELSE "Error"

\* The switch (this._state) of writeBeginInitExpression: the state recorded to
\* follow the init expression, "Error" standing for the throwing default branch.
initExpressionAfter(st) ==
  IF st = "DataSectionEntry" THEN "DataSectionEntryBody" ELSE "Error"

writeBeginInitExpression ==
  \/ /\ initExpressionAfter(state) = "Error"
     /\ Rejects("BeginInitExpressionBody")
  \/ /\ initExpressionAfter(state) # "Error"
     /\ initExpressionAfterState' = initExpressionAfter(state)
     /\ endWritten' = FALSE
     /\ state' = "InitExpression"
     /\ UNCHANGED <<buffer, sectionStart, sectionSizeBytes, sectionEntiesCount,
                    sectionEntiesCountBytes, bodyStart, bodySizeBytes, data>>
     /\ Accept([kind |-> "BeginInitExpressionBody", result |-> NoResult])

writeEndInitExpression ==
  \/ /\ ~ensureState("InitExpression")
     /\ Rejects("EndInitExpressionBody")
  \/ /\ ensureState("InitExpression")
     /\ ~ensureEndOperatorWritten
     /\ Rejects("EndInitExpressionBody")
  \/ /\ ensureState("InitExpression")
     /\ ensureEndOperatorWritten
     /\ state' = initExpressionAfterState
     /\ UNCHANGED <<buffer, sectionStart, sectionSizeBytes, sectionEntiesCount,
                    sectionEntiesCountBytes, bodyStart, bodySizeBytes, data,
                    endWritten, initExpressionAfterState>>
     /\ Accept([kind |-> "EndInitExpressionBody", result |-> NoResult])

\* this._endWritten = opInfo.code == OperatorCode.end
endWrittenAfter(code) == code = OperatorCode.end

\* Both INIT_EXPRESSION_OPERATOR and CODE_OPERATOR are dispatched here.
writeOperator(kind) ==
  \/ /\ ~ensureEitherState({"FunctionBody", "InitExpression"})
     /\ Rejects(kind)
  \/ /\ ensureEitherState({"FunctionBody", "InitExpression"})
     /\ OpsSince(log, Len(log)) < MaxOps
     /\ \E opInfo \in Operators :
          /\ buffer' = writeOperatorImmediates(writeByte(buffer, opInfo.code), opInfo)
          /\ endWritten' = endWrittenAfter(opInfo.code)
          /\ UNCHANGED <<state, sectionStart, sectionSizeBytes, sectionEntiesCount,
                         sectionEntiesCountBytes, bodyStart, bodySizeBytes, data,
                         initExpressionAfterState>>
          /\ Accept([kind |-> kind, result |-> opInfo])

\* default: throw new Error(`Invalid state: ${state}`)
writeInvalidState ==
  \E kind \in OtherReaderStates : Rejects(kind)

\* writeStateAndResult
Next ==
  \/ writeBeginWasm(Room)
  \/ writeEndWasm
  \/ writeBeginSection(Room)
  \/ writeEndSection
  \/ writeTypeSectionEntry(Room)
  \/ writeImportSectionEntry(Room)
  \/ writeFunctionSectionEntry(Room)
  \/ writeExportSectionEntry(Room)
  \/ writeBeginFunctionBody(Room)
  \/ writeEndFunctionBody
  \/ writeMemorySectionEntry(Room)
  \/ writeOperator("InitExpressionOperator")
  \/ writeOperator("CodeOperator")
  \/ writeBeginDataSectionEntry(Room)
  \/ writeDataSectionBody
  \/ writeEndDataSectionEntry
  \/ writeBeginInitExpression
  \/ writeEndInitExpression
  \/ writeInvalidState

Spec == Init /\ [][Next]_vars

(* ------------------------------------------------------------------ *)
(* One instance used for several modules                                *)
(* ------------------------------------------------------------------ *)

\* The events a module of the reuse runs may hold
MaxReuseEvents == 3

\* The bytes of the module under way and its events; data and the events of
\* the module finished before are not counted.
ReuseRoom ==
  /\ Len(buffer) <= MaxBytes
  /\ state = "Initial" \/ Len(log) < MaxReuseEvents

\* Modules of Function and Code sections, written one after the other with
\* the same instance: a BeginWasm may follow every EndWasm.
ReuseNext ==
  \/ writeBeginWasm(ReuseRoom)
  \/ writeEndWasm
  \/ writeBeginSection(ReuseRoom)
  \/ writeEndSection
  \/ writeFunctionSectionEntry(ReuseRoom)
  \/ writeBeginFunctionBody(ReuseRoom)
  \/ writeOperator("CodeOperator")
  \/ writeEndFunctionBody

ReuseSpec == Init /\ [][ReuseNext]_vars

(* ------------------------------------------------------------------ *)
(* WasmDisassembler: the pure functions                                 *)
(* ------------------------------------------------------------------ *)

\* Value types and type constructors, as signed LEB128 values
Type ==
  [i32 |-> -1, i64 |-> -2, f32 |-> -3, f64 |-> -4, anyfunc |-> -16, func |-> -32,
   empty_block_type |-> -64]

\* The characters 0x20..0x7E, in order. A TLA+ string cannot hold the
\* character 0x60: its place is held by a blank, and no payload holds that byte.
Ascii ==
  " !\"#$%&'()*+,-./0123456789:;<=>?@ABCDEFGHIJKLMNOPQRSTUVWXYZ[\\]^_ abcdefghijklmnopqrstuvwxyz{|}~"

\* String.fromCharCode(byte), for 0x20 <= byte <= 0x7E
fromCharCode(byte) == SubSeq(Ascii, byte - 31, byte - 31)

\* Number.prototype.toString(16) of one hexadecimal digit
HexDigit(d) == SubSeq("0123456789abcdef", d + 1, d + 1)

\* n.toString(16), n >= 0
RECURSIVE toString16(_)
toString16(n) ==
  IF n < 16 THEN HexDigit(n) ELSE toString16(n \div 16) \o HexDigit(n % 16)

\* One byte of binToString
binToChar(byte) ==
  IF byte < 32 \/ byte >= 127 \/ byte = 34 \/ byte = 92
    THEN "\\" \o HexDigit(byte \div 16) \o HexDigit(byte % 16)
    ELSE fromCharCode(byte)

RECURSIVE binToString(_)
binToString(b) ==
  IF b = <<>> THEN "" ELSE binToChar(Head(b)) \o binToString(Tail(b))

typeToString(type) ==
  CASE type = Type.i32     -> "i32"
    [] type = Type.i64     -> "i64"
    [] type = Type.f32     -> "f32"
    [] type = Type.f64     -> "f64"
    [] type = Type.anyfunc -> "anyfunc"

\* A 32-bit float literal n is given by what the function reads of it:
\* class ("zero", "finite", "infinite", "nan"), negative (the sign bit),
\* text (n.toString(), for a finite n) and payload (bits & 0x7FFFFF of a NaN).
formatFloat32(n) ==
  CASE n.class = "zero"     -> IF n.negative THEN "-0.0" ELSE "0.0"
    [] n.class = "finite"   -> n.text
    [] n.class = "infinite" -> IF n.negative THEN "-infinity" ELSE "infinity"
    [] n.class = "nan" ->
         IF ~n.negative /\ n.payload = 4194304 THEN "nan"
         ELSE IF n.payload = 4194304 THEN "-nan"
         ELSE (IF n.negative THEN "-" ELSE "+") \o "nan:0x" \o toString16(n.payload)

\* The low word of a 52-bit payload after its high bits: 8 digits
RECURSIVE toString16Padded(_, _)
toString16Padded(n, digits) ==
  IF digits = 0 THEN ""
  ELSE toString16Padded(n \div 16, digits - 1) \o HexDigit(n % 16)

\* As formatFloat32; the payload of a NaN is payloadHigh * 2^32 + payloadLow
\* (payloadHigh = data2 & 0xFFFFF, payloadLow = data1).
formatFloat64(n) ==
  CASE n.class = "zero"     -> IF n.negative THEN "-0.0" ELSE "0.0"
    [] n.class = "finite"   -> n.text
    [] n.class = "infinite" -> IF n.negative THEN "-infinity" ELSE "infinity"
    [] n.class = "nan" ->
         LET canonical == n.payloadHigh = 524288 /\ n.payloadLow = 0
             hex == IF n.payloadHigh = 0
                      THEN toString16(n.payloadLow)
                      ELSE toString16(n.payloadHigh) \o toString16Padded(n.payloadLow, 8)
         IN  IF ~n.negative /\ canonical THEN "nan"
             ELSE IF canonical THEN "-nan"
             ELSE (IF n.negative THEN "-" ELSE "+") \o "nan:0x" \o hex

\* The switch (code) of memoryAddressToString; Undefined when no case matches
defaultAlignFlags(code) ==
  CASE code \in {OperatorCode.i64_load, OperatorCode.i64_store} -> 3
    [] code \in {OperatorCode.i32_load, OperatorCode.i64_load32_s,
                 OperatorCode.i64_load32_u, OperatorCode.i32_store,
                 OperatorCode.i64_store32} -> 2
    [] code \in {OperatorCode.i32_load16_s, OperatorCode.i32_load16_u,
                 OperatorCode.i64_load16_s, OperatorCode.i64_load16_u,
                 OperatorCode.i32_store16, OperatorCode.i64_store16} -> 1
    [] code \in {OperatorCode.i32_load8_s, OperatorCode.i32_load8_u,
                 OperatorCode.i64_load8_s, OperatorCode.i64_load8_u,
                 OperatorCode.i32_store8, OperatorCode.i64_store8} -> 0
    [] OTHER -> Undefined

memoryAddressToString(address, code) ==
  IF address.flags = defaultAlignFlags(code)
    THEN "offset=" \o ToString(address.offset)
  ELSE IF address.offset = 0
    THEN "align=" \o ToString(Pow2(address.flags))
  ELSE "offset=" \o ToString(address.offset) \o " align=" \o ToString(Pow2(address.flags))

globalTypeToString(type) ==
  IF type.mutability = 0
    THEN typeToString(type.contentType)
    ELSE "(mut " \o typeToString(type.contentType) \o ")"

limitsToString(limits) ==
  ToString(limits.initial) \o
  (IF limits.maximum # Undefined THEN " " \o ToString(limits.maximum) ELSE "")

IndentIncrement == "  "

\* printFuncType with printVars: one " (param $var<i> <type>)" per parameter
RECURSIVE paramVars(_, _)
paramVars(params, i) ==
  IF i >= Len(params) THEN ""
  ELSE " (param $var" \o ToString(i) \o " " \o typeToString(params[i + 1]) \o ")"
       \o paramVars(params, i + 1)

\* printFuncType without printVars: " <type>" per parameter
RECURSIVE paramTypes(_, _)
paramTypes(params, i) ==
  IF i >= Len(params) THEN ""
  ELSE " " \o typeToString(params[i + 1]) \o paramTypes(params, i + 1)

RECURSIVE resultTypes(_, _)
resultTypes(returns, i) ==
  IF i >= Len(returns) THEN ""
  ELSE " (result " \o typeToString(returns[i + 1]) \o ")" \o resultTypes(returns, i + 1)

printFuncType(type, printVars) ==
  (IF printVars THEN paramVars(type.params, 0)
   ELSE IF Len(type.params) > 0 THEN " (param" \o paramTypes(type.params, 0) \o ")"
   ELSE "")
  \o resultTypes(type.returns, 0)

\* this._types[typeIndex] is an entry of the table (else the read gives undefined)
typeDefined(typeIndex) == typeIndex \in 0..(Len(types) - 1)

\* printType throws: type.form of undefined, or 'NYI other function form'
printTypeThrows(typeIndex) ==
  ~typeDefined(typeIndex) \/ types[typeIndex + 1].form # Type.func

printType(typeIndex) == "(func" \o printFuncType(types[typeIndex + 1], FALSE) \o ")"

\* this._indent += IndentIncrement (null + '  ' is 'null  ')
increaseIndent(ind) == (IF ind = NullIndent THEN "null" ELSE ind) \o IndentIncrement

\* slice(0, -1): one character is taken off
decreaseIndent_one(ind) ==
  IF Len(ind) <= 1 THEN "" ELSE SubSeq(ind, 1, Len(ind) - 1)

\* this._indent.slice(0, -IndentIncrement.length), for a string
decreaseIndent(ind) ==
  IF Len(ind) <= Len(IndentIncrement) THEN ""
  ELSE SubSeq(ind, 1, Len(ind) - Len(IndentIncrement))

\* OperatorCodeNames[code]: the name the enumeration gives the code
OperatorCodeNames(code) == CHOOSE name \in DOMAIN OperatorCode : OperatorCode[name] = code

NumericTypeNames == {"i32", "i64", "f32", "f64"}

\* .replace(/^([if](32|64))_/, "$1.")
replacePrefix(name) ==
  IF Len(name) >= 4 /\ SubSeq(name, 1, 3) \in NumericTypeNames /\ SubSeq(name, 4, 4) = "_"
    THEN SubSeq(name, 1, 3) \o "." \o SubSeq(name, 5, Len(name))
    ELSE name

\* .replace(/_([if](32|64))$/, "/$1")
replaceSuffix(name) ==
  LET n == Len(name)
  IN  IF n >= 4 /\ SubSeq(name, n - 2, n) \in NumericTypeNames /\ SubSeq(name, n - 3, n - 3) = "_"
        THEN SubSeq(name, 1, n - 4) \o "/" \o SubSeq(name, n - 2, n)
        ELSE name

\* str: the operator's name, and its block type unless empty
operatorString(operator) ==
  replaceSuffix(replacePrefix(OperatorCodeNames(operator.code))) \o
  (IF "blockType" \in DOMAIN operator /\ operator.blockType # Type.empty_block_type
     THEN " " \o typeToString(operator.blockType)
     ELSE "")

\* (<Int64>literal).toDouble(), printed; the Int64 is given by its 8
\* little-endian bytes and is shown here for values below 2^24
int64ToString(literal) ==
  ToString(literal.data[1] + 256 * literal.data[2] + 65536 * literal.data[3])

\* The push for operator.literal, by operator.code
literalPushes(operator) ==
  CASE operator.code = OperatorCode.i32_const -> <<" " \o ToString(operator.literal)>>
    [] operator.code = OperatorCode.f32_const -> <<" " \o formatFloat32(operator.literal)>>
    [] operator.code = OperatorCode.f64_const -> <<" " \o formatFloat64(operator.literal)>>
    [] operator.code = OperatorCode.i64_const -> <<" " \o int64ToString(operator.literal)>>
    [] OTHER -> <<>>

\* The pushes of the immediates, in the order of the handler
immediatePushes(operator) ==
  LET has(field) == field \in DOMAIN operator
  IN  (IF has("localIndex") THEN <<" $var" \o ToString(operator.localIndex)>> ELSE <<>>)
      \o (IF has("funcIndex") THEN <<" $func" \o ToString(operator.funcIndex)>> ELSE <<>>)
      \o (IF has("typeIndex") THEN <<" $type" \o ToString(operator.typeIndex)>> ELSE <<>>)
      \o (IF has("literal") THEN literalPushes(operator) ELSE <<>>)
      \o (IF has("memoryAddress")
            THEN <<" " \o memoryAddressToString(operator.memoryAddress, operator.code)>>
            ELSE <<>>)
      \o (IF has("brDepth") THEN <<" " \o ToString(operator.brDepth)>> ELSE <<>>)
      \o (IF has("brTable")
            THEN [i \in 1..Len(operator.brTable) |-> " " \o ToString(operator.brTable[i])]
            ELSE <<>>)
      \o (IF has("globalIndex") THEN <<" $global" \o ToString(operator.globalIndex)>> ELSE <<>>)

\* this._buffer.join(''); a null element joins as the empty string
RECURSIVE join(_)
join(strings) ==
  IF strings = <<>> THEN ""
  ELSE (IF Head(strings) = NullIndent THEN "" ELSE Head(strings)) \o join(Tail(strings))

(* ------------------------------------------------------------------ *)
(* WasmDisassembler: the cases of disassemble                           *)
(* ------------------------------------------------------------------ *)

\* Events read by one instance; an event is read only while fewer were read.
MaxDisEvents == 9

\* Operator events read by one instance
MaxDisOps == 4

\* Entries of the type table, of the declared-function table, and imports
MaxTypes == 1

MaxFuncs == 2

MaxImports == 2

\* The events of the given kinds read so far
EventsOf(kinds) == Cardinality({i \in 1..Len(disLog) : disLog[i].kind \in kinds})

MoreEvents == Len(disLog) < MaxDisEvents

\* The case ends: the strings were pushed, and the loop reads on (how = "ok")
\* or the exception leaves disassemble (how = "throw").
CaseEnds(kind, result, how, pushed) ==
  /\ disBuffer' = disBuffer \o pushed
  /\ disLog' = Append(disLog, [kind |-> kind, result |-> result, outcome |-> how,
                              pushed |-> pushed])
  /\ UNCHANGED <<disResult, vars, callVars>>

\* A case that only pushes strings
Prints(kind, result, pushed) ==
  /\ MoreEvents
  /\ CaseEnds(kind, result, "ok", pushed)
  /\ UNCHANGED <<types, funcIndex, funcTypes, importCount, globalCount, tableCount,
                 indent, indentLevel>>

\* a return of null that also empties the buffer
disNoMoreInput_reset ==
  /\ MoreEvents
  /\ disBuffer' = <<>>
  /\ disLog' = Append(disLog, [kind |-> "none", result |-> NoResult, outcome |-> "null",
                              pushed |-> <<>>])
  /\ UNCHANGED <<types, funcIndex, funcTypes, importCount, globalCount, tableCount,
                 indent, indentLevel, disResult, vars, callVars>>

\* if (!reader.read()) return null
disNoMoreInput ==
  /\ MoreEvents
  /\ disLog' = Append(disLog, [kind |-> "none", result |-> NoResult, outcome |-> "null",
                              pushed |-> <<>>])
  /\ UNCHANGED <<disassembler, disResult, vars, callVars>>

\* END_WASM; hasMoreBytes is the reader's answer
disEndWasm ==
  /\ MoreEvents
  /\ \E hasMoreBytes \in BOOLEAN :
       IF hasMoreBytes
         THEN /\ CaseEnds("EndWasm", NoResult, "ok", <<")\n">>)
         ELSE /\ disResult' = join(disBuffer \o <<")\n">>)
              /\ disBuffer' = <<>>
              /\ disLog' = Append(disLog, [kind |-> "EndWasm", result |-> NoResult,
                                          outcome |-> "return", pushed |-> <<")\n">>])
              /\ UNCHANGED <<vars, callVars>>
  /\ UNCHANGED <<types, funcIndex, funcTypes, importCount, globalCount, tableCount,
                 indent, indentLevel>>

disBeginWasm == Prints("BeginWasm", NoResult, <<"(module\n">>)

\* Function bodies begun by one instance
MaxBodies == 2

OperatorEvents == {"CodeOperator", "InitExpressionOperator"}

\* `"${binToString(importInfo.module)}" "${binToString(importInfo.field)}"`
importSource(importInfo) ==
  "\"" \o binToString(importInfo.module) \o "\" \"" \o binToString(importInfo.field) \o "\""

\* IMPORT_SECTION_ENTRY. In the Function case the template evaluates
\* this._importCount++ before this.printType(...), which may throw.
disImportSectionEntry(importEntries) ==
  /\ MoreEvents
  /\ EventsOf({"ImportSectionEntry"}) < MaxImports
  /\ \E importInfo \in importEntries :
       LET src == importSource(importInfo)
           kind == importInfo.kind
       IN  CASE kind = ExternalKind.Function ->
                  /\ importCount' = importCount + 1
                  /\ UNCHANGED <<tableCount, globalCount>>
                  /\ IF printTypeThrows(importInfo.funcTypeIndex)
                       THEN CaseEnds("ImportSectionEntry", importInfo, "throw", <<>>)
                       ELSE CaseEnds("ImportSectionEntry", importInfo, "ok",
                              <<"  (import $func" \o ToString(importCount) \o " " \o src
                                \o " " \o printType(importInfo.funcTypeIndex) \o ")\n">>)
             [] kind = ExternalKind.Table ->
                  /\ tableCount' = tableCount + 1
                  /\ UNCHANGED <<importCount, globalCount>>
                  /\ CaseEnds("ImportSectionEntry", importInfo, "ok",
                       <<"  (import " \o src \o " (table $table" \o ToString(tableCount)
                         \o " " \o limitsToString(importInfo.type.limits) \o " "
                         \o typeToString(importInfo.type.elementType) \o "))\n">>)
             [] kind = ExternalKind.Memory ->
                  /\ UNCHANGED <<importCount, tableCount, globalCount>>
                  /\ CaseEnds("ImportSectionEntry", importInfo, "ok",
                       <<"  (import " \o src \o " (memory "
                         \o limitsToString(importInfo.type.limits) \o "))\n">>)
             [] kind = ExternalKind.Global ->
                  /\ globalCount' = globalCount + 1
                  /\ UNCHANGED <<importCount, tableCount>>
                  /\ CaseEnds("ImportSectionEntry", importInfo, "ok",
                       <<"  (import " \o src \o " (global $global" \o ToString(globalCount)
                         \o " " \o globalTypeToString(importInfo.type) \o "))\n">>)
             [] OTHER ->
                  /\ UNCHANGED <<importCount, tableCount, globalCount>>
                  /\ CaseEnds("ImportSectionEntry", importInfo, "throw", <<>>)
  /\ UNCHANGED <<types, funcIndex, funcTypes, indent, indentLevel>>

\* TYPE_SECTION_ENTRY: the type is pushed on _types before printType is called
disTypeSectionEntry(functionTypes) ==
  /\ MoreEvents
  /\ Len(types) < MaxTypes
  /\ \E funcType \in functionTypes :
       LET typeIndex == Len(types)
       IN  /\ types' = Append(types, funcType)
           /\ IF funcType.form # Type.func
                THEN CaseEnds("TypeSectionEntry", funcType, "throw", <<>>)
                ELSE CaseEnds("TypeSectionEntry", funcType, "ok",
                       <<"  (type $type" \o ToString(typeIndex) \o " (func"
                         \o printFuncType(funcType, FALSE) \o "))\n">>)
  /\ UNCHANGED <<funcIndex, funcTypes, importCount, globalCount, tableCount, indent,
                 indentLevel>>

disBeginDataSectionEntry == Prints("BeginDataSectionEntry", NoResult, <<"  (data\n">>)

disDataSectionEntryBody(dataSegmentBodies) ==
  \E body \in dataSegmentBodies :
    Prints("DataSectionEntryBody", body, <<"    \"" \o binToString(body.data) \o "\"\n">>)

disEndDataSectionEntry == Prints("EndDataSectionEntry", NoResult, <<"  )\n">>)

disBeginInitExpression ==
  /\ MoreEvents
  /\ indent' = "      "
  /\ indentLevel' = 0
  /\ CaseEnds("BeginInitExpressionBody", NoResult, "ok", <<"    (\n">>)
  /\ UNCHANGED <<types, funcIndex, funcTypes, importCount, globalCount, tableCount>>

disEndInitExpression == Prints("EndInitExpressionBody", NoResult, <<"    )\n">>)

disFunctionSectionEntry(functionEntries) ==
  /\ MoreEvents
  /\ Len(funcTypes) < MaxFuncs
  /\ \E entry \in functionEntries :
       /\ funcTypes' = Append(funcTypes, entry.typeIndex)
       /\ CaseEnds("FunctionSectionEntry", entry, "ok", <<>>)
  /\ UNCHANGED <<types, funcIndex, importCount, globalCount, tableCount, indent,
                 indentLevel>>

\* the loops over func.locals with localIndex advanced once per group
RECURSIVE localPushes_perGroup(_, _, _, _)
localPushes_perGroup(locals, g, i, localIndex) ==
  IF g >= Len(locals) THEN <<>>
  ELSE IF i >= locals[g + 1].count
    THEN localPushes_perGroup(locals, g + 1, 0, localIndex + 1)
  ELSE <<"    (local $var" \o ToString(localIndex) \o " "
         \o typeToString(locals[g + 1].type) \o ")\n">>
       \o localPushes_perGroup(locals, g, i + 1, localIndex)

\* The pushes of the loops over func.locals: one line per local of each
\* (count, type) group, localIndex++ per line. g is the group (from 0), i the
\* line within it.
RECURSIVE localPushes(_, _, _, _)
localPushes(locals, g, i, localIndex) ==
  IF g >= Len(locals) THEN <<>>
  ELSE IF i >= locals[g + 1].count THEN localPushes(locals, g + 1, 0, localIndex)
  ELSE <<"    (local $var" \o ToString(localIndex) \o " "
         \o typeToString(locals[g + 1].type) \o ")\n">>
       \o localPushes(locals, g, i + 1, localIndex + 1)

\* this._types[this._funcTypes[this._funcIndex]] is an entry of the type table
\* (else it is undefined, and type.params throws)
bodyTypeDefined ==
  /\ funcIndex < Len(funcTypes)
  /\ typeDefined(funcTypes[funcIndex + 1])

disBeginFunctionBody(functionInformations) ==
  /\ MoreEvents
  /\ EventsOf({"BeginFunctionBody"}) < MaxBodies
  /\ \E func \in functionInformations :
       IF ~bodyTypeDefined
         THEN /\ CaseEnds("BeginFunctionBody", func, "throw", <<>>)
              /\ UNCHANGED <<funcIndex, indent, indentLevel>>
         ELSE LET type == types[funcTypes[funcIndex + 1] + 1]
                  printIndex == funcIndex + importCount
              IN  /\ CaseEnds("BeginFunctionBody", func, "ok",
                       <<"  (func $func" \o ToString(printIndex)
                         \o printFuncType(type, TRUE) \o "\n">>
                       \o localPushes(func.locals, 0, 0, Len(type.params)))
                  /\ funcIndex' = funcIndex + 1
                  /\ indent' = "    "
                  /\ indentLevel' = 0
  /\ UNCHANGED <<types, funcTypes, importCount, globalCount, tableCount>>

\* INIT_EXPRESSION_OPERATOR and CODE_OPERATOR share this case.
disOperator(kinds, operators) ==
  /\ MoreEvents
  /\ EventsOf(OperatorEvents) < MaxDisOps
  /\ \E kind \in kinds, operator \in operators :
       LET code == operator.code
           decreases == code \in {OperatorCode.end, OperatorCode.else}
           increases == code \in {OperatorCode.if, OperatorCode.block, OperatorCode.loop,
                                  OperatorCode.else}
           printIndent == IF decreases THEN decreaseIndent(indent) ELSE indent
           printLevel == IF decreases THEN indentLevel - 1 ELSE indentLevel
       IN  IF code = OperatorCode.end /\ indentLevel = 0
             THEN \* reached the end of the function, skipping the operator
                  /\ CaseEnds(kind, operator, "ok", <<>>)
                  /\ UNCHANGED <<indent, indentLevel>>
           ELSE IF decreases /\ indent = NullIndent
             THEN \* decreaseIndent: null.slice throws
                  /\ CaseEnds(kind, operator, "throw", <<>>)
                  /\ UNCHANGED <<indent, indentLevel>>
           ELSE /\ CaseEnds(kind, operator, "ok",
                     <<printIndent, operatorString(operator)>>
                     \o immediatePushes(operator) \o <<"\n">>)
                /\ indent' = IF increases THEN increaseIndent(printIndent) ELSE printIndent
                /\ indentLevel' = IF increases THEN printLevel + 1 ELSE printLevel
  /\ UNCHANGED <<types, funcIndex, funcTypes, importCount, globalCount, tableCount>>

disEndFunctionBody == Prints("EndFunctionBody", NoResult, <<"  )\n">>)

(* ------------------------------------------------------------------ *)
(* WasmDisassembler: the events read, and the specifications            *)
(* ------------------------------------------------------------------ *)

\* A function import and an import that is no function
DisImportEntries ==
  {[module |-> <<109>>, field |-> <<102>>, kind |-> ExternalKind.Function, funcTypeIndex |-> 0],
   [module |-> <<109>>, field |-> <<102>>, kind |-> ExternalKind.Memory,
    type |-> [limits |-> [initial |-> 1, maximum |-> 2]]]}

DisFunctionEntries == {[typeIndex |-> 0]}

\* No locals; two groups of locals, the first of two
DisFunctionInformations ==
  {[locals |-> <<>>],
   [locals |-> <<[count |-> 2, type |-> Type.i32], [count |-> 1, type |-> Type.f64]>>]}

\* The disassembler was constructed; the emitter and memoryAddressToString
\* are not used.
DisInit == Init

\* Events read in a run about the numbering of functions and locals
MaxNumberingEvents == 6

NumberingRoom == Len(disLog) < MaxNumberingEvents

\* Type, import and function entries and function bodies, in any order
NumberingNext ==
  \/ NumberingRoom /\ disTypeSectionEntry(FunctionTypes)
  \/ NumberingRoom /\ disImportSectionEntry(DisImportEntries)
  \/ NumberingRoom /\ disFunctionSectionEntry(DisFunctionEntries)
  \/ NumberingRoom /\ disBeginFunctionBody(DisFunctionInformations)

NumberingSpec == DisInit /\ [][NumberingNext]_disVars

\* A signature without parameters and results
IndentFunctionTypes == {[form |-> Type.func, params |-> <<>>, returns |-> <<>>]}

\* A body without locals
IndentFunctionInformations == {[locals |-> <<>>]}

\* The operators that open, split and close a block, and one that does neither
IndentOperators ==
  {[code |-> OperatorCode.block, blockType |-> Type.empty_block_type],
   [code |-> OperatorCode.if, blockType |-> Type.i32],
   [code |-> OperatorCode.else],
   [code |-> OperatorCode.end],
   [code |-> OperatorCode.i32_const, literal |-> 1024]}

\* Events read in a run about the indentation of operators
MaxIndentEvents == 8

IndentRoom == Len(disLog) < MaxIndentEvents

NoOperatorYet == EventsOf(OperatorEvents) = 0

\* The Begin event read last, "" when none was read
RECURSIVE LastBegin(_)
LastBegin(n) ==
  IF n = 0 THEN ""
  ELSE IF disLog[n].kind \in {"BeginFunctionBody", "BeginInitExpressionBody"}
    THEN disLog[n].kind
  ELSE LastBegin(n - 1)

\* The reader reports the operators of an init expression as
\* INIT_EXPRESSION_OPERATOR and those of a function body as CODE_OPERATOR.
OperatorKindHere ==
  IF LastBegin(Len(disLog)) = "BeginInitExpressionBody"
    THEN "InitExpressionOperator" ELSE "CodeOperator"

LastIs(kinds) == disLog # <<>> /\ disLog[Len(disLog)].kind \in kinds

\* A type entry first, function entries and the beginnings of function bodies
\* and init expressions in any order, then operators, well nested or not,
\* and the end of the function body after an operator
IndentNext ==
  \/ IndentRoom /\ disLog = <<>> /\ disTypeSectionEntry(IndentFunctionTypes)
  \/ IndentRoom /\ NoOperatorYet /\ disFunctionSectionEntry(DisFunctionEntries)
  \/ IndentRoom /\ NoOperatorYet /\ disBeginFunctionBody(IndentFunctionInformations)
  \/ IndentRoom /\ NoOperatorYet /\ disBeginInitExpression
  \/ IndentRoom /\ ~LastIs({"EndFunctionBody"})
                /\ disOperator({OperatorKindHere}, IndentOperators)
  \/ IndentRoom /\ LastIs(OperatorEvents) /\ disEndFunctionBody

IndentSpec == DisInit /\ [][IndentNext]_disVars

\* The import of a table and the import of a memory
ModuleImportEntries ==
  {[module |-> <<109>>, field |-> <<116>>, kind |-> ExternalKind.Table,
    type |-> [elementType |-> Type.anyfunc, limits |-> [initial |-> 1, maximum |-> Undefined]]],
   [module |-> <<109>>, field |-> <<102>>, kind |-> ExternalKind.Memory,
    type |-> [limits |-> [initial |-> 1, maximum |-> 2]]]}

\* Events read, and returns of null, in a run over whole modules
MaxModuleEvents == 6

ModuleRoom == Len(disLog) < MaxModuleEvents

\* Modules of imports read by one instance, the input running out anywhere
ModuleNext ==
  \/ ModuleRoom /\ disBeginWasm
  \/ ModuleRoom /\ disImportSectionEntry(ModuleImportEntries)
  \/ ModuleRoom /\ disEndWasm
  \/ ModuleRoom /\ disNoMoreInput

ModuleSpec == Init /\ [][ModuleNext]_disVars

\* The payload "hi"
DisDataSegmentBodies == {[data |-> <<104, 105>>]}

\* The operators of the offset of a data entry
DataOperators ==
  {[code |-> OperatorCode.i32_const, literal |-> 1024], [code |-> OperatorCode.end]}

\* Events read in a run about the text of a data entry
MaxDataEvents == 7

DataRoom == Len(disLog) < MaxDataEvents

\* The events of data entries and of their init expressions, in any order
DataNext ==
  \/ DataRoom /\ disBeginDataSectionEntry
  \/ DataRoom /\ disBeginInitExpression
  \/ DataRoom /\ disOperator({"InitExpressionOperator"}, DataOperators)
  \/ DataRoom /\ disEndInitExpression
  \/ DataRoom /\ disDataSectionEntryBody(DisDataSegmentBodies)
  \/ DataRoom /\ disEndDataSectionEntry

DataSpec == Init /\ [][DataNext]_disVars

(* ------------------------------------------------------------------ *)
(* memoryAddressToString: the calls, and the specification              *)
(* ------------------------------------------------------------------ *)

\* The alignment flags and the offsets of the addresses passed
MaxFlags == 3

MaxOffset == 2

\* The opcodes of the loads and stores
LoadStoreCodes == (OperatorCode.i32_load)..(OperatorCode.i64_store32)

MemoryAddresses == [flags : 0..MaxFlags, offset : 0..MaxOffset]

\* The arguments of one call, which has not returned
AddressInit ==
  /\ EmitterConstructor
  /\ DisConstructor
  /\ maCode \in LoadStoreCodes
  /\ maAddress \in MemoryAddresses
  /\ maResult = ""
  /\ NoVarIntCall

\* The call returns
callMemoryAddressToString ==
  /\ maResult = ""
  /\ maResult' = memoryAddressToString(maAddress, maCode)
  /\ UNCHANGED <<maCode, maAddress, vars, disVars, viVars>>

AddressNext == callMemoryAddressToString

AddressSpec == AddressInit /\ [][AddressNext]_maVars

(* ------------------------------------------------------------------ *)
(* writeVarInt: the calls, and the specification                        *)
(* ------------------------------------------------------------------ *)

\* How far the arguments lie from the values at which the length changes
MaxDelta == 3

\* The bit positions 7k - 1 at which the length of the encoding changes
LengthSteps == {6, 13, 20, 27}

\* 32-bit signed integers: those around 0, around plus and minus 2^6, 2^13,
\* 2^20 and 2^27, the largest and the smallest, and 1024
VarIntArguments ==
  {d : d \in (-MaxDelta)..MaxDelta}
  \cup {Pow2(k) + d : k \in LengthSteps, d \in (-MaxDelta)..MaxDelta}
  \cup {d - Pow2(k) : k \in LengthSteps, d \in (-MaxDelta)..MaxDelta}
  \cup {2147483647 - d : d \in 0..MaxDelta}
  \cup {d - 2147483647 - 1 : d \in 0..MaxDelta}
  \cup {1024}

\* The argument of one call, which has not written
VarIntInit ==
  /\ EmitterConstructor
  /\ DisConstructor
  /\ NoAddressCall
  /\ viN \in VarIntArguments
  /\ viBytes = <<>>

\* The call writes to the empty buffer
callWriteVarInt ==
  /\ viBytes = <<>>
  /\ viBytes' = writeVarInt(<<>>, viN)
  /\ UNCHANGED <<viN, vars, disVars, maVars>>

VarIntNext == callWriteVarInt

VarIntSpec == VarIntInit /\ [][VarIntNext]_viVars

(* ------------------------------------------------------------------ *)
(* Reading the output back                                              *)
(* ------------------------------------------------------------------ *)

\* LEB128 decoding of an unsigned integer starting at (0-based) position pos:
\* the value and the position after its last byte; next = -1 when the bytes
\* run out before a byte without continuation bit.
RECURSIVE ReadVarUint(_, _, _)
ReadVarUint(buf, pos, weight) ==
  IF pos < 0 \/ pos >= Len(buf)
    THEN [value |-> 0, next |-> -1]
    ELSE IF buf[pos + 1] >= 128
      THEN LET rest == ReadVarUint(buf, pos + 1, weight * 128)
           IN  [value |-> (buf[pos + 1] % 128) * weight + rest.value, next |-> rest.next]
      ELSE [value |-> buf[pos + 1] * weight, next |-> pos + 1]

\* The five bytes at pos are one LEB128 integer of value n.
SlotHolds(buf, pos, n) ==
  LET r == ReadVarUint(buf, pos, 1) IN r.next = pos + 5 /\ r.value = n

Accepted(kind) == event.kind = kind /\ outcome = "ok"

(* ------------------------------------------------------------------ *)
(* C1                                                                   *)
(* ------------------------------------------------------------------ *)

SectionStates ==
  {"CustomSecton", "TypeSection", "ImportSection", "FunctionSection",
   "TableSection", "MemorySection", "GlobalSection", "ExportSection",
   "StartSection", "ElementSection", "CodeSection", "DataSection"}

\* The source states the transition table gives for each structural event
LegalSource ==
  [BeginWasm               |-> {"Initial"},
   BeginSection            |-> {"Wasm"},
   EndWasm                 |-> {"Wasm"},
   TypeSectionEntry        |-> {"TypeSection"},
   ImportSectionEntry      |-> {"ImportSection"},
   FunctionSectionEntry    |-> {"FunctionSection"},
   ExportSectionEntry      |-> {"ExportSection"},
   MemorySectionEntry      |-> {"MemorySection"},
   BeginFunctionBody       |-> {"CodeSection"},
   EndFunctionBody         |-> {"FunctionBody"},
   BeginDataSectionEntry   |-> {"DataSection"},
   BeginInitExpressionBody |-> {"DataSectionEntry"},
   EndInitExpressionBody   |-> {"InitExpression"},
   DataSectionEntryBody    |-> {"DataSectionEntryBody"},
   EndDataSectionEntry     |-> {"DataSectionEntryEnd"},
   EndSection              |-> SectionStates]

\* C1 (event legality): a structural event delivered in a state that is not
\* its source state in the transition table throws; so it is accepted only
\* in its source state.
C1_EventLegality ==
  [][\A k \in DOMAIN LegalSource :
       (event'.kind = k /\ state \notin LegalSource[k]) => outcome' = "throw"]_vars

\* A BeginSection delivered inside a code section has thrown.
C1_Witness ==
  event.kind = "BeginSection" /\ outcome = "throw" /\ state = "CodeSection"

(* ------------------------------------------------------------------ *)
(* C2                                                                   *)
(* ------------------------------------------------------------------ *)

\* C2 (size-prefix consistency): right after an accepted EndSection the five
\* bytes of the section-size slot are one LEB128 integer equal to
\* position - sectionStart, the slot ends where the measured bytes start and
\* the measured bytes hold the 5-byte entries-count slot; right after an
\* accepted EndFunctionBody the same holds of the body-size slot and bodyStart.
C2_SizePrefix ==
  /\ Accepted("EndSection") =>
       /\ sectionSizeBytes >= 0
       /\ sectionSizeBytes + 5 = sectionStart
       /\ sectionEntiesCountBytes = sectionStart
       /\ sectionStart + 5 <= position(buffer)
       /\ SlotHolds(buffer, sectionSizeBytes, position(buffer) - sectionStart)
  /\ Accepted("EndFunctionBody") =>
       /\ bodySizeBytes >= 0
       /\ bodySizeBytes + 5 = bodyStart
       /\ bodyStart <= position(buffer)
       /\ SlotHolds(buffer, bodySizeBytes, position(buffer) - bodyStart)

\* A code section holding a function body has been closed.
C2_Witness ==
  /\ Accepted("EndSection")
  /\ Len(log) >= 2
  /\ log[Len(log) - 1].kind = "EndFunctionBody"
  /\ position(buffer) - bodyStart >= 2

\* A section of 128 bytes or more has been closed (two significant groups).
C2_LongSection ==
  Accepted("EndSection") /\ position(buffer) - sectionStart >= 128

(* ------------------------------------------------------------------ *)
(* C3                                                                   *)
(* ------------------------------------------------------------------ *)

EntryKinds ==
  {"TypeSectionEntry", "ImportSectionEntry", "FunctionSectionEntry",
   "ExportSectionEntry", "MemorySectionEntry", "BeginFunctionBody",
   "BeginDataSectionEntry"}

\* The entry events among l[1..i] accepted after the last BeginSection
RECURSIVE EntriesSince(_, _)
EntriesSince(l, i) ==
  IF i = 0 \/ l[i].kind = "BeginSection"
    THEN 0
    ELSE (IF l[i].kind \in EntryKinds THEN 1 ELSE 0) + EntriesSince(l, i - 1)

\* C3 (entry-count consistency): right after an accepted EndSection the
\* entries-count slot holds the number of entry events the emitter accepted
\* since the matching BeginSection.
C3_EntryCount ==
  Accepted("EndSection") =>
    SlotHolds(buffer, sectionEntiesCountBytes, EntriesSince(log, Len(log)))

(* ------------------------------------------------------------------ *)
(* C4                                                                   *)
(* ------------------------------------------------------------------ *)

\* At least one operator was accepted since the body or init expression was
\* begun, and the most recent one had code end.
LastOperatorIsEnd ==
  /\ OpsSince(log, Len(log)) >= 1
  /\ log[Len(log)].result.code = OperatorCode.end

\* C4 (end-operator discipline): EndFunctionBody delivered in FunctionBody,
\* and EndInitExpression delivered in InitExpression, is accepted if and only
\* if the last operator written since the begin event is end; otherwise it
\* throws and the state stays.
C4_EndOperator ==
  [][/\ (event'.kind = "EndFunctionBody" /\ state = "FunctionBody") =>
          (((outcome' = "ok") <=> LastOperatorIsEnd)
           /\ (~LastOperatorIsEnd => (outcome' = "throw" /\ state' = state)))
     /\ (event'.kind = "EndInitExpressionBody" /\ state = "InitExpression") =>
          (((outcome' = "ok") <=> LastOperatorIsEnd)
           /\ (~LastOperatorIsEnd => (outcome' = "throw" /\ state' = state)))]_vars

\* A body whose operators are block, end has been closed: the block is still
\* open, only the last operator counts.
C4_Witness ==
  /\ Accepted("EndFunctionBody")
  /\ Len(log) >= 3
  /\ log[Len(log) - 1].kind = "CodeOperator"
  /\ log[Len(log) - 2].kind = "CodeOperator"
  /\ log[Len(log) - 2].result.code = OperatorCode.block

\* EndFunctionBody has thrown for a missing end.
C4_MissingEnd ==
  event.kind = "EndFunctionBody" /\ outcome = "throw" /\ state = "FunctionBody"

(* ------------------------------------------------------------------ *)
(* C5: the module of which an event sequence is the parse               *)
(* ------------------------------------------------------------------ *)

\* Unsigned LEB128, minimal length
RECURSIVE ULeb(_)
ULeb(n) == IF n < 128 THEN <<n>> ELSE <<128 + (n % 128)>> \o ULeb(n \div 128)

\* Signed LEB128, minimal length
RECURSIVE SLeb(_)
SLeb(n) ==
  IF -64 <= n /\ n < 64 THEN <<n % 128>> ELSE <<128 + (n % 128)>> \o SLeb(n \div 128)

\* Unsigned LEB128 in the 5-byte form
ULeb5(n) ==
  <<128 + (n % 128), 128 + ((n \div 128) % 128), 128 + ((n \div 16384) % 128),
    128 + ((n \div 2097152) % 128), (n \div 268435456) % 128>>

\* The little-endian bytes of a bit pattern
RECURSIVE LittleEndian(_, _)
LittleEndian(bits, count) ==
  IF count = 0 THEN <<>> ELSE <<bits % 256>> \o LittleEndian(bits \div 256, count - 1)

RECURSIVE Concat(_)
Concat(ss) == IF ss = <<>> THEN <<>> ELSE Head(ss) \o Concat(Tail(ss))

Bytes(str) == ULeb(Len(str)) \o str

SLebs(xs) == Concat([i \in 1..Len(xs) |-> SLeb(xs[i])])

ULebs(xs) == Concat([i \in 1..Len(xs) |-> ULeb(xs[i])])

LimitsBytes(limits) ==
  IF limits.maximum = Undefined
    THEN <<0>> \o ULeb(limits.initial)
    ELSE <<1>> \o ULeb(limits.initial) \o ULeb(limits.maximum)

\* An operator in the binary format: the opcode and its immediates
OperatorBytes(op) ==
  LET c == op.code
  IN  <<c>> \o
      (CASE c \in {OperatorCode.block, OperatorCode.loop, OperatorCode.if} -> SLeb(op.blockType)
         [] c \in {OperatorCode.br, OperatorCode.br_if} -> ULeb(op.brDepth)
         [] c = OperatorCode.br_table -> ULeb(Len(op.brTable) - 1) \o ULebs(op.brTable)
         [] c = OperatorCode.call -> ULeb(op.funcIndex)
         [] c = OperatorCode.call_indirect -> ULeb(op.typeIndex) \o <<0>>
         [] c \in (OperatorCode.get_local)..(OperatorCode.tee_local) -> ULeb(op.localIndex)
         [] c \in {OperatorCode.get_global, OperatorCode.set_global} -> ULeb(op.globalIndex)
         [] c \in (OperatorCode.i32_load)..(OperatorCode.i64_store32) ->
              ULeb(op.memoryAddress.flags) \o ULeb(op.memoryAddress.offset)
         [] c \in {OperatorCode.current_memory, OperatorCode.grow_memory} -> <<0>>
         [] c = OperatorCode.i32_const -> SLeb(op.literal)
         [] c = OperatorCode.f32_const -> LittleEndian(op.literal, 4)
         [] c = OperatorCode.f64_const ->
              LittleEndian(op.literal.lo, 4) \o LittleEndian(op.literal.hi, 4)
         [] OTHER -> <<>>)

LocalsBytes(locals) ==
  ULeb(Len(locals)) \o
  Concat([i \in 1..Len(locals) |-> ULeb(locals[i].count) \o SLeb(locals[i].type)])

\* The bytes of the operators l[i], l[i+1], .. up to the end of the body
RECURSIVE BodyOperatorBytes(_, _)
BodyOperatorBytes(l, i) ==
  IF i > Len(l) \/ l[i].kind \notin {"CodeOperator", "InitExpressionOperator"}
    THEN <<>>
    ELSE OperatorBytes(l[i].result) \o BodyOperatorBytes(l, i + 1)

\* The bytes an event that is neither BeginSection nor BeginWasm stands for
EntryBytes(l, i) ==
  LET r == l[i].result
      k == l[i].kind
  IN  CASE k = "TypeSectionEntry" ->
             SLeb(r.form) \o ULeb(Len(r.params)) \o SLebs(r.params)
               \o ULeb(Len(r.returns)) \o SLebs(r.returns)
        [] k = "ImportSectionEntry" ->
             Bytes(r.module) \o Bytes(r.field) \o <<r.kind>> \o
             (CASE r.kind = ExternalKind.Function -> ULeb(r.funcTypeIndex)
                [] r.kind = ExternalKind.Table ->
                     SLeb(r.type.elementType) \o LimitsBytes(r.type.limits)
                [] r.kind = ExternalKind.Memory -> LimitsBytes(r.type.limits)
                [] r.kind = ExternalKind.Global ->
                     SLeb(r.type.contentType) \o ULeb(r.type.mutability))
        [] k = "FunctionSectionEntry" -> ULeb(r.typeIndex)
        [] k = "ExportSectionEntry" -> Bytes(r.field) \o <<r.kind>> \o ULeb(r.index)
        [] k = "MemorySectionEntry" -> LimitsBytes(r.limits)
        [] k = "BeginFunctionBody" ->
             LET body == LocalsBytes(r.locals) \o BodyOperatorBytes(l, i + 1)
             IN  ULeb5(Len(body)) \o LocalsBytes(r.locals)
        [] k \in {"CodeOperator", "InitExpressionOperator"} -> OperatorBytes(r)
        [] k = "BeginDataSectionEntry" -> ULeb(r.index)
        [] k = "DataSectionEntryBody" -> Bytes(r.data)
        [] OTHER -> <<>>

\* The payload of the section whose events start at l[i]: up to its EndSection
RECURSIVE SectionPayload(_, _)
SectionPayload(l, i) ==
  IF i > Len(l) \/ l[i].kind = "EndSection"
    THEN <<>>
    ELSE EntryBytes(l, i) \o SectionPayload(l, i + 1)

\* The number of entries of the section whose events start at l[i]
RECURSIVE SectionCount(_, _)
SectionCount(l, i) ==
  IF i > Len(l) \/ l[i].kind = "EndSection"
    THEN 0
    ELSE (IF l[i].kind \in EntryKinds THEN 1 ELSE 0) + SectionCount(l, i + 1)

\* The module of the binary format (5-byte size and count prefixes) whose
\* parse is the event sequence l
RECURSIVE ModuleBytes(_, _)
ModuleBytes(l, i) ==
  IF i > Len(l) THEN <<>>
  ELSE (CASE l[i].kind = "BeginWasm" -> <<0, 97, 115, 109, 1, 0, 0, 0>>
          [] l[i].kind = "BeginSection" ->
               LET payload == ULeb5(SectionCount(l, i + 1)) \o SectionPayload(l, i + 1)
               IN  ULeb(l[i].result.id) \o ULeb5(Len(payload)) \o ULeb5(SectionCount(l, i + 1))
          [] l[i].kind \in {"EndSection", "EndWasm"} -> <<>>
          [] OTHER -> EntryBytes(l, i))
       \o ModuleBytes(l, i + 1)

\* The accepted events hold no float constant.
NoFloatConst(l) ==
  \A i \in 1..Len(l) :
    l[i].kind \in {"CodeOperator", "InitExpressionOperator"} =>
      l[i].result.code \notin {OperatorCode.f32_const, OperatorCode.f64_const}

\* The kind of the begin event that the operator l[i] follows
RECURSIVE OperatorContext(_, _)
OperatorContext(l, i) ==
  IF i = 0 THEN "none"
  ELSE IF l[i].kind \in {"CodeOperator", "InitExpressionOperator"}
    THEN OperatorContext(l, i - 1)
    ELSE l[i].kind

\* l can be the parse of a module of the supported constructs: its sections
\* are Type, Import, Function, Memory, Export, Code and Data sections, its
\* export kinds are defined ones, the operators of a function body are
\* delivered as CodeOperator and those of an init expression as
\* InitExpressionOperator.
SupportedParse(l) ==
  \A i \in 1..Len(l) :
    /\ l[i].kind = "BeginSection" =>
         l[i].result.id \in {SectionCode.Type, SectionCode.Import, SectionCode.Function,
                             SectionCode.Memory, SectionCode.Export, SectionCode.Code,
                             SectionCode.Data}
    /\ l[i].kind = "ExportSectionEntry" =>
         l[i].result.kind \in {ExternalKind.Function, ExternalKind.Table,
                               ExternalKind.Memory, ExternalKind.Global}
    /\ l[i].kind = "CodeOperator" => OperatorContext(l, i) = "BeginFunctionBody"
    /\ l[i].kind = "InitExpressionOperator" =>
         OperatorContext(l, i) = "BeginInitExpressionBody"

\* C5 (round trip): when EndWasm is accepted after a sequence of events that
\* can be the parse of a supported module, none of which has thrown, data is
\* that module.
C5_RoundTrip ==
  (Accepted("EndWasm") /\ ~threw /\ SupportedParse(log)) => data = ModuleBytes(log, 1)

\* The round trip of the modules without float constants.
C5_RoundTripNoFloat ==
  (Accepted("EndWasm") /\ ~threw /\ SupportedParse(log) /\ NoFloatConst(log)) =>
    data = ModuleBytes(log, 1)

(* ------------------------------------------------------------------ *)
(* C6                                                                   *)
(* ------------------------------------------------------------------ *)

\* C6 (data only changes at EndWasm): data is null at construction, and a
\* call that changes data is an accepted EndWasm; every other call, accepted
\* or throwing, leaves data as it was.
C6_DataOnlyAtEndWasm ==
  /\ data = Null
  /\ [][data' # data => (event'.kind = "EndWasm" /\ outcome' = "ok")]_vars

\* A call has thrown inside the second module of an instance, the data of the
\* first module being visible.
C6_Witness ==
  /\ data # Null
  /\ outcome = "throw"
  /\ event.kind = "EndFunctionBody"
  /\ state \in SectionStates

(* ------------------------------------------------------------------ *)
(* C7                                                                   *)
(* ------------------------------------------------------------------ *)

Header == <<0, 97, 115, 109, 1, 0, 0, 0>>

\* C7 (finalization): an accepted EndWasm sets data to the buffer contents
\* of before the call, empties the buffer and returns to Initial; data, once
\* set, starts with the 8 header bytes; after the events BeginWasm, EndWasm
\* it is exactly the header.
C7_Finalization ==
  /\ [](data # Null => (Len(data) >= 8 /\ SubSeq(data, 1, 8) = Header))
  /\ []((Accepted("EndWasm") /\ Len(log) = 2) => data = Header)
  /\ [][(event'.kind = "EndWasm" /\ outcome' = "ok") =>
          (data' = buffer /\ buffer' = <<>> /\ state' = "Initial")]_vars

\* A module with a section has been finalized.
C7_Witness ==
  /\ Accepted("EndWasm")
  /\ Len(data) > 8
  /\ buffer = <<>>
  /\ state = "Initial"

(* ------------------------------------------------------------------ *)
(* C8                                                                   *)
(* ------------------------------------------------------------------ *)

\* C8 as claimed: BeginSection delivered in Wasm with id Custom, Start,
\* Element, Table or Global throws and leads to Error.
C8_RejectsGlobal ==
  [][(event'.kind = "BeginSection" /\ state = "Wasm"
        /\ event'.result.id \in {SectionCode.Custom, SectionCode.Start, SectionCode.Element,
                                 SectionCode.Table, SectionCode.Global}) =>
       (state' = "Error" /\ outcome' = "throw")]_vars

\* The section state of each section id that BeginSection accepts
AcceptedSection ==
  [i \in {SectionCode.Type, SectionCode.Import, SectionCode.Function, SectionCode.Memory,
          SectionCode.Global, SectionCode.Export, SectionCode.Code, SectionCode.Data} |->
     CASE i = SectionCode.Type     -> "TypeSection"
       [] i = SectionCode.Import   -> "ImportSection"
       [] i = SectionCode.Function -> "FunctionSection"
       [] i = SectionCode.Memory   -> "MemorySection"
       [] i = SectionCode.Global   -> "GlobalSection"
       [] i = SectionCode.Export   -> "ExportSection"
       [] i = SectionCode.Code     -> "CodeSection"
       [] i = SectionCode.Data     -> "DataSection"]

\* C8 (amended): BeginSection delivered in Wasm with id Custom, Start,
\* Element or Table (or an id outside the enum) throws and leads to Error;
\* with id Type, Import, Function, Memory, Global, Export, Code or Data it is
\* accepted and leads to the section state of that id.
C8_UnsupportedSections ==
  [][(event'.kind = "BeginSection" /\ state = "Wasm") =>
       IF event'.result.id \in DOMAIN AcceptedSection
         THEN outcome' = "ok" /\ state' = AcceptedSection[event'.result.id]
         ELSE outcome' = "throw" /\ state' = "Error"]_vars

\* BeginSection(Global) has been accepted.
C8_Witness ==
  /\ Accepted("BeginSection")
  /\ event.result.id = SectionCode.Global
  /\ state = "GlobalSection"

\* BeginSection(Table) has thrown and left the emitter in Error.
C8_TableRejected ==
  /\ event.kind = "BeginSection"
  /\ outcome = "throw"
  /\ state = "Error"
  /\ buffer[Len(buffer) - 5] = SectionCode.Table

(* ------------------------------------------------------------------ *)
(* C9                                                                   *)
(* ------------------------------------------------------------------ *)

DataEntryStates ==
  {"DataSectionEntry", "InitExpression", "DataSectionEntryBody", "DataSectionEntryEnd"}

\* The accepted steps of a data entry: <<from, event, to>>
DataEntrySteps ==
  {<<"DataSectionEntry", "BeginInitExpressionBody", "InitExpression">>,
   <<"InitExpression", "InitExpressionOperator", "InitExpression">>,
   <<"InitExpression", "CodeOperator", "InitExpression">>,
   <<"InitExpression", "EndInitExpressionBody", "DataSectionEntryBody">>,
   <<"DataSectionEntryBody", "DataSectionEntryBody", "DataSectionEntryEnd">>,
   <<"DataSectionEntryEnd", "EndDataSectionEntry", "DataSection">>}

\* The index of the last BeginDataSectionEntry among l[1..i], 0 if none
RECURSIVE LastBeginDataEntry(_, _)
LastBeginDataEntry(l, i) ==
  IF i = 0 \/ l[i].kind = "BeginDataSectionEntry" THEN i ELSE LastBeginDataEntry(l, i - 1)

\* l[b..e] is BeginDataSectionEntry, BeginInitExpression, one or more
\* operators the last of which is end, EndInitExpression, one
\* DataSectionEntryBody, EndDataSectionEntry.
DataEntryProtocol(l, b, e) ==
  /\ b >= 1
  /\ e - b >= 5
  /\ l[b].kind = "BeginDataSectionEntry"
  /\ l[b + 1].kind = "BeginInitExpressionBody"
  /\ \A i \in (b + 2)..(e - 3) : l[i].kind \in {"CodeOperator", "InitExpressionOperator"}
  /\ l[e - 3].result.code = OperatorCode.end
  /\ l[e - 2].kind = "EndInitExpressionBody"
  /\ l[e - 1].kind = "DataSectionEntryBody"
  /\ l[e].kind = "EndDataSectionEntry"

\* C9 (data-entry protocol): between an accepted BeginDataSectionEntry and
\* the return to DataSection every call either throws and leaves the state, or
\* is one of the steps of the protocol (so EndSection, EndWasm and a second
\* BeginDataSectionEntry throw, and EndInitExpression leads to
\* DataSectionEntryBody); and when EndDataSectionEntry is accepted the events
\* accepted since BeginDataSectionEntry are exactly the protocol's sequence.
C9_DataEntryProtocol ==
  /\ [](Accepted("EndDataSectionEntry") =>
          (state = "DataSection"
           /\ DataEntryProtocol(log, LastBeginDataEntry(log, Len(log)), Len(log))))
  /\ [][(state \in DataEntryStates) =>
          ((outcome' = "throw" /\ state' = state)
           \/ (outcome' = "ok" /\ <<state, event'.kind, state'>> \in DataEntrySteps))]_vars

\* A data entry has been completed.
C9_Witness ==
  Accepted("EndDataSectionEntry") /\ state = "DataSection"

(* ------------------------------------------------------------------ *)
(* C10                                                                  *)
(* ------------------------------------------------------------------ *)

\* The (1-based) positions of the 5-byte slot at (0-based) position pos
Slot(pos) == (pos + 1)..(pos + 5)

\* The positions where the buffers a and b of equal length differ
Changed(a, b) == {i \in 1..Len(a) : a[i] # b[i]}

\* C10 (buffer length): the buffer gets shorter only by an accepted EndWasm;
\* an accepted EndSection or EndFunctionBody leaves its length and changes
\* only bytes of the slots it patches.
C10_BufferLength ==
  [][/\ Len(buffer') < Len(buffer) => (event'.kind = "EndWasm" /\ outcome' = "ok")
     /\ (event'.kind = "EndSection" /\ outcome' = "ok") =>
          (Len(buffer') = Len(buffer)
           /\ Changed(buffer, buffer') \subseteq
                (Slot(sectionSizeBytes) \cup Slot(sectionEntiesCountBytes)))
     /\ (event'.kind = "EndFunctionBody" /\ outcome' = "ok") =>
          (Len(buffer') = Len(buffer)
           /\ Changed(buffer, buffer') \subseteq Slot(bodySizeBytes))]_vars

\* A body-size slot has been patched in a buffer that holds bytes after it.
C10_Witness ==
  /\ Accepted("EndFunctionBody")
  /\ buffer[bodySizeBytes + 1] # 128
  /\ Len(buffer) > bodySizeBytes + 5

(* ------------------------------------------------------------------ *)
(* C11                                                                  *)
(* ------------------------------------------------------------------ *)

\* C11 (poisoning): once a call on the instance has thrown, no later EndWasm
\* is accepted.
C11_Poisoned == threw => ~Accepted("EndWasm")

(* ------------------------------------------------------------------ *)
(* C12                                                                  *)
(* ------------------------------------------------------------------ *)

OperatorKinds == {"CodeOperator", "InitExpressionOperator"}

\* The operator event just accepted has the given code.
AcceptedOperator(e, o, code) ==
  e.kind \in OperatorKinds /\ o = "ok" /\ e.result.code = code

\* C12 (float constants): an accepted f32.const appends the opcode and the 4
\* little-endian bytes of the literal's bit pattern, an accepted f64.const the
\* opcode and the 8 little-endian bytes of the literal's bit pattern.
C12_FloatConstBytes ==
  [][/\ AcceptedOperator(event', outcome', OperatorCode.f32_const) =>
          buffer' = buffer \o <<OperatorCode.f32_const>>
                           \o LittleEndian(event'.result.literal, 4)
     /\ AcceptedOperator(event', outcome', OperatorCode.f64_const) =>
          buffer' = buffer \o <<OperatorCode.f64_const>>
                           \o LittleEndian(event'.result.literal.lo, 4)
                           \o LittleEndian(event'.result.literal.hi, 4)]_vars

(* ------------------------------------------------------------------ *)
(* C13                                                                  *)
(* ------------------------------------------------------------------ *)

\* The last n bytes of buf
Suffix(buf, n) == SubSeq(buf, Len(buf) - n + 1, Len(buf))

\* C13 (br_table): an accepted br_table with k targets and a default appends
\* the opcode, varuint k, then the k + 1 elements in order as varuints;
\* brTable = [1,2,3,0] appends 0E 03 01 02 03 00.
C13_BrTable ==
  [][AcceptedOperator(event', outcome', OperatorCode.br_table) =>
       LET t == event'.result.brTable
       IN  /\ buffer' = buffer \o <<OperatorCode.br_table>> \o ULeb(Len(t) - 1) \o ULebs(t)
           /\ (t = <<1, 2, 3, 0>>) =>
                 buffer' = buffer \o <<14, 3, 1, 2, 3, 0>>]_vars

C13_Witness ==
  /\ AcceptedOperator(event, outcome, OperatorCode.br_table)
  /\ event.result.brTable = <<1, 2, 3, 0>>
  /\ state = "FunctionBody"
  /\ Len(buffer) >= 6
  /\ Suffix(buffer, 6) = <<14, 3, 1, 2, 3, 0>>

(* ------------------------------------------------------------------ *)
(* C14                                                                  *)
(* ------------------------------------------------------------------ *)

\* C14 (unknown export kind): an export entry whose kind is outside
\* {Function, Table, Memory, Global} throws, as an import entry of such a
\* kind does.
C14_UnknownExportKind ==
  [][(event'.kind \in {"ExportSectionEntry", "ImportSectionEntry"}
        /\ event'.result # NoResult
        /\ ~validImportKind(event'.result.kind)) => outcome' = "throw"]_vars

(* ------------------------------------------------------------------ *)
(* C15                                                                  *)
(* ------------------------------------------------------------------ *)

\* C15 as stated: a CodeOperator is accepted only in FunctionBody and an
\* InitExpressionOperator only in InitExpression.
C15_KindSpecific ==
  [][/\ (event'.kind = "CodeOperator" /\ state # "FunctionBody") => outcome' = "throw"
     /\ (event'.kind = "InitExpressionOperator" /\ state # "InitExpression") =>
          outcome' = "throw"]_vars

\* C15 (amended): an operator event of either kind is accepted in
\* FunctionBody and in InitExpression alike, where it appends the opcode and
\* leaves the state; in every other state it throws and changes nothing.
C15_OperatorStates ==
  [][(event'.kind \in OperatorKinds) =>
       IF state \in {"FunctionBody", "InitExpression"}
         THEN /\ outcome' = "ok"
              /\ state' = state
              /\ Len(buffer') > Len(buffer)
              /\ buffer'[Len(buffer) + 1] = event'.result.code
         ELSE outcome' = "throw" /\ UNCHANGED emitter]_vars

\* A CodeOperator accepted in an init expression
C15_Witness ==
  /\ Accepted("CodeOperator")
  /\ state = "InitExpression"

\* An InitExpressionOperator accepted in a function body
C15_InitOperatorInBody ==
  /\ Accepted("InitExpressionOperator")
  /\ state = "FunctionBody"

(* ------------------------------------------------------------------ *)
(* C16                                                                  *)
(* ------------------------------------------------------------------ *)

\* The event read last
LastRead == disLog[Len(disLog)]

\* The last event is of the given kind and its case ran to its end.
Handled(kind) ==
  /\ disLog # <<>>
  /\ LastRead.kind = kind
  /\ LastRead.outcome = "ok"

\* The function-kind import entries among the first n events read
FunctionImportsSeen(n) ==
  Cardinality({i \in 1..n : /\ disLog[i].kind = "ImportSectionEntry"
                            /\ disLog[i].result.kind = ExternalKind.Function})

\* The BeginFunctionBody events among the first n events read
BodiesSeen(n) == Cardinality({i \in 1..n : disLog[i].kind = "BeginFunctionBody"})

\* The header of a function body begins "  (func $func<n>", and what follows
\* the index is no digit.
HeaderHasIndex(header, n) ==
  LET prefix == "  (func $func" \o ToString(n)
  IN  /\ Len(header) > Len(prefix)
      /\ SubSeq(header, 1, Len(prefix)) = prefix
      /\ SubSeq(header, Len(prefix) + 1, Len(prefix) + 1) \in {" ", "\n"}

\* C16 (function numbering): the index printed in the header of a function
\* body is the number of function imports read so far plus the number of
\* BeginFunctionBody events read before this one.
C16_FunctionIndex ==
  Handled("BeginFunctionBody") =>
    HeaderHasIndex(LastRead.pushed[1],
                   FunctionImportsSeen(Len(disLog)) + BodiesSeen(Len(disLog) - 1))

\* The BeginFunctionBody events, among the first n read, that threw
BodiesThrown(n) ==
  Cardinality({i \in 1..n : /\ disLog[i].kind = "BeginFunctionBody"
                            /\ disLog[i].outcome = "throw"})

\* The same while no BeginFunctionBody event has thrown
C16_FunctionIndexNoThrow ==
  (Handled("BeginFunctionBody") /\ BodiesThrown(Len(disLog)) = 0) =>
    HeaderHasIndex(LastRead.pushed[1],
                   FunctionImportsSeen(Len(disLog)) + BodiesSeen(Len(disLog) - 1))

(* ------------------------------------------------------------------ *)
(* C17                                                                  *)
(* ------------------------------------------------------------------ *)

\* The types of the local slots: each (count, type) group gives count slots
RECURSIVE LocalSlots(_)
LocalSlots(locals) ==
  IF locals = <<>> THEN <<>>
  ELSE [i \in 1..Head(locals).count |-> Head(locals).type] \o LocalSlots(Tail(locals))

\* " (param $var0 <type>)" ... " (param $var<p-1> <type>)" for the first p parameters
RECURSIVE ParamsText(_, _)
ParamsText(params, p) ==
  IF p = 0 THEN ""
  ELSE ParamsText(params, p - 1)
       \o " (param $var" \o ToString(p - 1) \o " " \o typeToString(params[p]) \o ")"

\* The signature of the body begun last (the function index is already advanced)
LastBodyType == types[funcTypes[funcIndex] + 1]

\* C17 (local numbering): a handled BeginFunctionBody of a signature with p
\* parameters prints them as $var0..$var(p-1) in the header, then one
\* "(local $var<k> <type>)" line per local slot, k from p upwards by 1.
C17_LocalIndices ==
  Handled("BeginFunctionBody") =>
    LET pushed == LastRead.pushed
        params == LastBodyType.params
        p == Len(params)
        slots == LocalSlots(LastRead.result.locals)
        prefix == "  (func $func" \o ToString(funcIndex - 1 + importCount)
                  \o ParamsText(params, p)
    IN  /\ Len(pushed[1]) >= Len(prefix)
        /\ SubSeq(pushed[1], 1, Len(prefix)) = prefix
        /\ Len(pushed) = 1 + Len(slots)
        /\ \A k \in 1..Len(slots) :
             pushed[1 + k] = "    (local $var" \o ToString(p + k - 1) \o " "
                             \o typeToString(slots[k]) \o ")\n"

\* A body with one parameter and locals in groups of 2 and 1
C17_Witness ==
  /\ Handled("BeginFunctionBody")
  /\ Len(LastBodyType.params) = 1
  /\ LastRead.pushed =
       <<"  (func $func1 (param $var0 i32) (result i32)\n",
         "    (local $var1 i32)\n", "    (local $var2 i32)\n", "    (local $var3 f64)\n">>

(* ------------------------------------------------------------------ *)
(* C18                                                                  *)
(* ------------------------------------------------------------------ *)

\* The position of the last BeginFunctionBody among the first n events, 0 if none
RECURSIVE BodyStart(_)
BodyStart(n) ==
  IF n = 0 THEN 0
  ELSE IF disLog[n].kind = "BeginFunctionBody" THEN n
  ELSE BodyStart(n - 1)

\* The last events read are a function body: its beginning, handled, then
\* only operators, then EndFunctionBody.
BodyRead ==
  /\ Handled("EndFunctionBody")
  /\ LET b == BodyStart(Len(disLog))
     IN  /\ b > 0
         /\ disLog[b].outcome = "ok"
         /\ \A i \in (b + 1)..(Len(disLog) - 1) :
              disLog[i].kind = "CodeOperator" /\ disLog[i].outcome = "ok"

\* The operator codes of that body
BodyCodes ==
  LET b == BodyStart(Len(disLog))
  IN  [i \in 1..(Len(disLog) - 1 - b) |-> disLog[b + i].result.code]

\* From position i, with the given blocks open, the codes close every block
\* with an end, have at most one else per if, and stop at the final end.
RECURSIVE Nested(_, _, _)
Nested(codes, i, open) ==
  IF i > Len(codes) THEN FALSE
  ELSE LET code == codes[i]
           top == open[Len(open)]
           rest == SubSeq(open, 1, Len(open) - 1)
       IN  IF code \in {OperatorCode.block, OperatorCode.loop}
             THEN Nested(codes, i + 1, Append(open, "block"))
           ELSE IF code = OperatorCode.if THEN Nested(codes, i + 1, Append(open, "if"))
           ELSE IF code = OperatorCode.else
             THEN open # <<>> /\ top = "if" /\ Nested(codes, i + 1, Append(rest, "else"))
           ELSE IF code = OperatorCode.end
             THEN IF open = <<>> THEN i = Len(codes) ELSE Nested(codes, i + 1, rest)
           ELSE Nested(codes, i + 1, open)

WellNested(codes) == Nested(codes, 1, <<>>)

\* The operator that opened the block which the end after position j closes:
\* searching backwards from j, with depth blocks closed on the way
RECURSIVE Opener(_, _, _)
Opener(codes, j, depth) ==
  IF j = 0 THEN 0
  ELSE IF codes[j] = OperatorCode.end THEN Opener(codes, j - 1, depth + 1)
  ELSE IF codes[j] \in {OperatorCode.block, OperatorCode.loop, OperatorCode.if}
    THEN IF depth = 0 THEN j ELSE Opener(codes, j - 1, depth - 1)
  ELSE Opener(codes, j - 1, depth)

\* C18 (indent balance): when EndFunctionBody arrives after a well nested
\* body, indentLevel is 0, the final end was not printed, and every inner end
\* was printed at the indent of the operator that opened its block.
C18_IndentBalance ==
  (BodyRead /\ WellNested(BodyCodes)) =>
    LET b == BodyStart(Len(disLog))
        codes == BodyCodes
    IN  /\ indentLevel = 0
        /\ disLog[b + Len(codes)].pushed = <<>>
        /\ \A j \in 1..(Len(codes) - 1) :
             codes[j] = OperatorCode.end =>
               /\ disLog[b + j].pushed # <<>>
               /\ disLog[b + j].pushed[2] = "end"
               /\ disLog[b + j].pushed[1] = disLog[b + Opener(codes, j - 1, 0)].pushed[1]

\* A well nested body with an if, its else and its end
C18_Witness ==
  /\ BodyRead
  /\ WellNested(BodyCodes)
  /\ BodyCodes = <<OperatorCode.if, OperatorCode.else, OperatorCode.end, OperatorCode.end>>
  /\ disLog[BodyStart(Len(disLog)) + 3].pushed = <<"    ", "end", "\n">>

(* ------------------------------------------------------------------ *)
(* C19                                                                  *)
(* ------------------------------------------------------------------ *)

\* The Begin event handled last, "" when none was
RECURSIVE LastBegun(_)
LastBegun(n) ==
  IF n = 0 THEN ""
  ELSE IF /\ disLog[n].kind \in {"BeginFunctionBody", "BeginInitExpressionBody"}
          /\ disLog[n].outcome = "ok"
    THEN disLog[n].kind
  ELSE LastBegun(n - 1)

\* The indent a function body or an init expression begins with
BaseIndent ==
  IF LastBegun(Len(disLog)) = "BeginInitExpressionBody" THEN "      " ELSE "    "

\* An operator of a function body or of an init expression was handled.
OperatorHandled ==
  /\ disLog # <<>>
  /\ LastRead.kind \in OperatorEvents
  /\ LastRead.outcome = "ok"
  /\ LastBegun(Len(disLog)) # ""

\* C19 (indent floor): the indent is taken back for end and else only above
\* level 0: an operator is never printed at an indent shorter than the base,
\* and after it indentLevel is not negative and the indent not shorter than
\* the base.
C19_IndentFloor ==
  OperatorHandled =>
    /\ indentLevel >= 0
    /\ Len(indent) >= Len(BaseIndent)
    /\ LastRead.pushed # <<>> => Len(LastRead.pushed[1]) >= Len(BaseIndent)

\* What is left of it between events
C19_BetweenEvents ==
  OperatorHandled =>
    /\ indentLevel >= 0
    /\ Len(indent) >= Len(BaseIndent)
    /\ Len(indent) = Len(BaseIndent) + indentLevel * Len(IndentIncrement)

\* An else at level 0 is printed two characters left of the base
C19_ElseAtLevel0 ==
  /\ OperatorHandled
  /\ LastRead.result.code = OperatorCode.else
  /\ LastRead.pushed = <<"  ", "else", "\n">>
  /\ indentLevel = 0

(* ------------------------------------------------------------------ *)
(* C20                                                                  *)
(* ------------------------------------------------------------------ *)

\* The accesses by width in bits
Accesses64 ==
  {OperatorCode.i64_load, OperatorCode.f64_load, OperatorCode.i64_store,
   OperatorCode.f64_store}

Accesses32 ==
  {OperatorCode.i32_load, OperatorCode.f32_load, OperatorCode.i64_load32_s,
   OperatorCode.i64_load32_u, OperatorCode.i32_store, OperatorCode.f32_store,
   OperatorCode.i64_store32}

Accesses16 ==
  {OperatorCode.i32_load16_s, OperatorCode.i32_load16_u, OperatorCode.i64_load16_s,
   OperatorCode.i64_load16_u, OperatorCode.i32_store16, OperatorCode.i64_store16}

\* log2 of the natural alignment of the access in bytes
NaturalAlignment(code) ==
  IF code \in Accesses64 THEN 3
  ELSE IF code \in Accesses32 THEN 2
  ELSE IF code \in Accesses16 THEN 1
  ELSE 0

\* memoryAddressToString returned for flags that are the natural alignment.
DefaultAlignmentReturned ==
  /\ maResult # ""
  /\ maCode \in LoadStoreCodes
  /\ maAddress.flags = NaturalAlignment(maCode)

\* C20 (default alignment elision): for every load and store opcode, f32 and
\* f64 ones included, and flags equal to the log2 of the natural alignment,
\* memoryAddressToString returns "offset=<offset>" without an align part, for
\* every offset.
C20_DefaultAlignment ==
  DefaultAlignmentReturned => maResult = "offset=" \o ToString(maAddress.offset)

FloatAccesses ==
  {OperatorCode.f32_load, OperatorCode.f64_load, OperatorCode.f32_store,
   OperatorCode.f64_store}

\* The same for the integer loads and stores
C20_IntegerAccesses ==
  (DefaultAlignmentReturned /\ maCode \notin FloatAccesses) =>
    maResult = "offset=" \o ToString(maAddress.offset)

\* f32.load with the alignment of four bytes and offset 0
C20_F32Load ==
  /\ maCode = OperatorCode.f32_load
  /\ maAddress = [flags |-> 2, offset |-> 0]
  /\ maResult = "align=4"

(* ------------------------------------------------------------------ *)
(* C21                                                                  *)
(* ------------------------------------------------------------------ *)

\* The events of a data entry at offset i32.const 1024 with the payload "hi"
DataEntryEvents ==
  <<[kind |-> "BeginDataSectionEntry", result |-> NoResult],
    [kind |-> "BeginInitExpressionBody", result |-> NoResult],
    [kind |-> "InitExpressionOperator",
     result |-> [code |-> OperatorCode.i32_const, literal |-> 1024]],
    [kind |-> "InitExpressionOperator", result |-> [code |-> OperatorCode.end]],
    [kind |-> "EndInitExpressionBody", result |-> NoResult],
    [kind |-> "DataSectionEntryBody", result |-> [data |-> <<104, 105>>]],
    [kind |-> "EndDataSectionEntry", result |-> NoResult]>>

\* The events read were exactly those of that data entry, all handled.
DataEntryRead ==
  /\ Len(disLog) = Len(DataEntryEvents)
  /\ \A i \in 1..Len(disLog) :
       /\ disLog[i].kind = DataEntryEvents[i].kind
       /\ disLog[i].result = DataEntryEvents[i].result
       /\ disLog[i].outcome = "ok"

\* C21 (init-expression text): the data entry with the init expression
\* i32.const 1024, end is printed with the end on a line of its own inside
\* the parenthesised init expression.
C21_DataEntryText ==
  DataEntryRead =>
    join(disBuffer) = "  (data\n    (\n      i32.const 1024\n      end\n    )\n"
                      \o "    \"hi\"\n  )\n"

\* What is printed: the end of the init expression is skipped
C21_EndSkipped ==
  /\ DataEntryRead
  /\ disLog[4].pushed = <<>>
  /\ join(disBuffer) = "  (data\n    (\n      i32.const 1024\n    )\n    \"hi\"\n  )\n"

(* ------------------------------------------------------------------ *)
(* C22                                                                  *)
(* ------------------------------------------------------------------ *)

\* The positions in the log at which disassemble returned a text
Returns == {i \in 1..Len(disLog) : disLog[i].outcome = "return"}

\* The last return before position i, 0 if none
RECURSIVE ReturnBefore(_)
ReturnBefore(i) ==
  IF i <= 1 THEN 0
  ELSE IF disLog[i - 1].outcome = "return" THEN i - 1
  ELSE ReturnBefore(i - 1)

IsEvent(e) == e.kind # "none"

\* The events read after position a up to position b, and what they pushed
EventsBetween(a, b) ==
  LET read == SelectSeq(SubSeq(disLog, a + 1, b), IsEvent)
  IN  [i \in 1..Len(read) |-> [kind |-> read[i].kind, result |-> read[i].result]]

RECURSIVE Pushes(_)
Pushes(entries) ==
  IF entries = <<>> THEN <<>> ELSE Head(entries).pushed \o Pushes(Tail(entries))

TextBetween(a, b) == join(Pushes(SubSeq(disLog, a + 1, b)))

\* disassemble has just returned the text of the second module read by the
\* instance, and the second module has the events of the first.
SameModuleTwice ==
  /\ disLog # <<>>
  /\ LastRead.outcome = "return"
  /\ Cardinality(Returns) = 2
  /\ LET first == ReturnBefore(Len(disLog))
     IN  EventsBetween(0, first) = EventsBetween(first, Len(disLog))

\* C22 (disassembler reset): the text returned for a second module read with
\* the same instance is the text a fresh instance returns for it; for a
\* module with the events of the first, that is the text returned first.
C22_ResetAtEndWasm ==
  SameModuleTwice => disResult = TextBetween(0, ReturnBefore(Len(disLog)))

\* The table of the second module is numbered after that of the first
C22_TableNumberKept ==
  /\ SameModuleTwice
  /\ TextBetween(0, ReturnBefore(Len(disLog))) = "  (import \"m\" \"t\" (table $table0 1 anyfunc))\n)\n"
  /\ disResult = "  (import \"m\" \"t\" (table $table1 1 anyfunc))\n)\n"

(* ------------------------------------------------------------------ *)
(* C28                                                                  *)
(* ------------------------------------------------------------------ *)

\* disassemble returned null in this step
ReturnsNull == Len(disLog') = Len(disLog) + 1 /\ disLog'[Len(disLog')].outcome = "null"

\* disassemble returned a text in this step
ReturnsText == Len(disLog') = Len(disLog) + 1 /\ disLog'[Len(disLog')].outcome = "return"

\* C28 (chunking independence): a return of null keeps the accumulated text
\* and the state, and the text returned at EndWasm is what the events read
\* since the last returned text pushed, wherever null was returned between.
C28_Chunking ==
  [][/\ ReturnsNull => UNCHANGED <<disassembler, disResult>>
     /\ ReturnsText =>
          disResult' = join(Pushes(SelectSeq(SubSeq(disLog', ReturnBefore(Len(disLog')) + 1,
                                                    Len(disLog')), IsEvent)))]_disVars

\* A module read across three calls
C28_Witness ==
  /\ Len(disLog) = 5
  /\ disLog[1].kind = "BeginWasm"
  /\ disLog[2].outcome = "null"
  /\ disLog[3].kind = "ImportSectionEntry"
  /\ disLog[4].outcome = "null"
  /\ disLog[5].outcome = "return"
  /\ disResult = "(module\n  (import \"m\" \"t\" (table $table0 1 anyfunc))\n)\n"

(* ------------------------------------------------------------------ *)
(* C23                                                                  *)
(* ------------------------------------------------------------------ *)

\* The signed LEB128 value of the bytes from position i: seven bits a byte,
\* low group first, the sign extended from bit 6 of the last byte
RECURSIVE DecodeVarInt(_, _)
DecodeVarInt(bytes, i) ==
  IF i = Len(bytes)
    THEN IF bytes[i] >= 64 THEN bytes[i] - 128 ELSE bytes[i]
    ELSE (bytes[i] % 128) + 128 * DecodeVarInt(bytes, i + 1)

\* n is a signed integer of 7 * len bits
FitsIn(n, len) == len >= 5 \/ (-Pow2(7 * len - 1) <= n /\ n < Pow2(7 * len - 1))

\* The length of the minimal signed LEB128 encoding of n
MinimalLength(n) == CHOOSE len \in 1..5 : FitsIn(n, len) /\ (len > 1 => ~FitsIn(n, len - 1))

\* The last byte of a five-byte encoding of an int32 holds bits 28..31 and
\* the sign: 0..7 or 0x78..0x7F
LastByteInRange(bytes) == Len(bytes) = 5 => bytes[5] \in (0..7) \cup (120..127)

\* C23 (writeVarInt): the bytes written for a 32-bit signed integer are its
\* minimal signed LEB128 encoding: 1 to 5 bytes, the high bit set on every
\* byte but the last, and the bytes decode to the integer; 1024 gives 80 08,
\* -1 gives 7F and 64 gives C0 00.
C23_VarInt ==
  viBytes # <<>> =>
    /\ Len(viBytes) \in 1..5
    /\ \A i \in 1..(Len(viBytes) - 1) : viBytes[i] \in 128..255
    /\ viBytes[Len(viBytes)] \in 0..127
    /\ LastByteInRange(viBytes)
    /\ DecodeVarInt(viBytes, 1) = viN
    /\ Len(viBytes) = MinimalLength(viN)
    /\ viN = 1024 => viBytes = <<128, 8>>
    /\ viN = -1 => viBytes = <<127>>
    /\ viN = 64 => viBytes = <<192, 0>>

\* 64 needs a second byte for its sign
C23_Witness ==
  /\ viN = 64
  /\ viBytes = <<192, 0>>

\* The smallest integer is written in five bytes
C23_FiveBytes ==
  /\ viN = -2147483647 - 1
  /\ viBytes = <<128, 128, 128, 128, 120>>

(* ------------------------------------------------------------------ *)
(* C24                                                                  *)
(* ------------------------------------------------------------------ *)

\* The states in which an operator event is legal
OperatorStates == {"FunctionBody", "InitExpression"}

\* An event of this kind is illegal in the current state, or it ends a
\* function body or an init expression whose end operator is missing.
IllegalHere(kind) ==
  \/ kind \in DOMAIN LegalSource /\ state \notin LegalSource[kind]
  \/ kind \in OperatorKinds /\ state \notin OperatorStates
  \/ kind \in {"EndFunctionBody", "EndInitExpressionBody"} /\ ~endWritten

\* C24 (frame of a rejected event): an event that is illegal in the current
\* state, or that ends a body whose end operator is missing, throws and
\* leaves every field of the emitter as it was.
C24_RejectedUnchanged ==
  [][IllegalHere(event'.kind) => (outcome' = "throw" /\ UNCHANGED emitter)]_vars

\* EndFunctionBody was rejected for a body that has an operator but no end.
C24_Witness ==
  /\ event.kind = "EndFunctionBody"
  /\ outcome = "throw"
  /\ state = "FunctionBody"
  /\ ~endWritten
  /\ log[Len(log)].kind = "CodeOperator"
  /\ position(buffer) > bodyStart

(* ------------------------------------------------------------------ *)
(* C25                                                                  *)
(* ------------------------------------------------------------------ *)

\* C25 (Error is absorbing): in state Error every event throws, the state
\* stays Error and data stays as it is.
C25_ErrorAbsorbing ==
  [][state = "Error" => (outcome' = "throw" /\ state' = "Error" /\ data' = data)]_vars

\* An EndSection was delivered in state Error, and has thrown.
C25_Witness ==
  /\ state = "Error"
  /\ event.kind = "EndSection"
  /\ outcome = "throw"

(* ------------------------------------------------------------------ *)
(* C26                                                                  *)
(* ------------------------------------------------------------------ *)

\* The last event accepted began a Global section.
GlobalSectionBegun ==
  /\ log # <<>>
  /\ log[Len(log)].kind = "BeginSection"
  /\ log[Len(log)].result.id = SectionCode.Global

\* C26 (Global section): the state is GlobalSection exactly after the
\* BeginSection of a Global section; the only event accepted there is
\* EndSection (every other event throws), and it closes
\* the section with an entries count of 0 and a size of 5.
C26_GlobalSectionEmpty ==
  [][(state = "GlobalSection" \/ GlobalSectionBegun) =>
       /\ state = "GlobalSection"
       /\ GlobalSectionBegun
       /\ outcome' = "ok" =>
            /\ event'.kind = "EndSection"
            /\ sectionEntiesCount' = 0
            /\ SlotHolds(buffer', sectionSizeBytes', 5)
            /\ SlotHolds(buffer', sectionEntiesCountBytes', 0)
            /\ position(buffer') = sectionStart' + 5]_vars

\* An empty Global section has been closed.
C26_Witness ==
  /\ Accepted("EndSection")
  /\ Len(log) >= 2
  /\ log[Len(log) - 1].kind = "BeginSection"
  /\ log[Len(log) - 1].result.id = SectionCode.Global
  /\ SubSeq(buffer, 9, Len(buffer)) = <<6, 133, 128, 128, 128, 0, 128, 128, 128, 128, 0>>

(* ------------------------------------------------------------------ *)
(* C27                                                                  *)
(* ------------------------------------------------------------------ *)

\* The events l with the literal of every float constant set to zero
ZeroFloats(l) ==
  [i \in 1..Len(l) |->
     IF l[i].kind \notin {"CodeOperator", "InitExpressionOperator"} THEN l[i]
     ELSE IF l[i].result.code = OperatorCode.f32_const
       THEN [l[i] EXCEPT !.result.literal = 0]
     ELSE IF l[i].result.code = OperatorCode.f64_const
       THEN [l[i] EXCEPT !.result.literal = [lo |-> 0, hi |-> 0]]
     ELSE l[i]]

\* C27 (reuse): in state Initial with the data of a finished module, BeginWasm
\* is accepted; and the data of an accepted EndWasm is a function of the
\* events accepted since the last BeginWasm alone, the same for the first
\* module of the instance (data was null) and for every later one (data held
\* an earlier module, fields held its bookmarks).
C27_Reuse ==
  [][/\ (state = "Initial" /\ data # Null /\ event'.kind = "BeginWasm") =>
          (outcome' = "ok" /\ state' = "Wasm" /\ data' = data)
     /\ (event'.kind = "EndWasm" /\ outcome' = "ok" /\ SupportedParse(log')) =>
          data' = ModuleBytes(ZeroFloats(log'), 1)]_vars

\* A module of one Function section was finished by an instance whose body
\* bookmarks are those of a function body of an earlier module.
C27_Witness ==
  /\ Accepted("EndWasm")
  /\ Len(log) = 5
  /\ log[2].kind = "BeginSection" /\ log[2].result.id = SectionCode.Function
  /\ log[3].kind = "FunctionSectionEntry"
  /\ bodyStart > 0
  /\ endWritten
  /\ sectionEntiesCount = 1
  /\ data = ModuleBytes(log, 1)


====
